---- MODULE Spec2Model ----
(***************************************************************************)
(* Model of kmp-lib: the KMP literal search core (failure function,        *)
(* scalar loop, SSE4.2 / AVX2 / AVX-512 engines, runtime dispatch, public  *)
(* API) and the DFA regex core (recursive-descent parser, Thompson NFA,    *)
(* subset construction, matcher).                                          *)
(*                                                                         *)
(* Bytes are the integers 0..255.  A text or pattern is a sequence of      *)
(* bytes; C++ index i is TLA+ index i + 1, see At.  A pointer or iterator  *)
(* into a buffer is the offset from the start of the buffer.               *)
(***************************************************************************)
EXTENDS Integers, Sequences, FiniteSets, TLC

VARIABLES
    text,         \* text argument of the last call
    pattern,      \* literal pattern argument of the last call
    machine,      \* the CPU and OS the process runs on
    build,        \* the engines the compiler flags compiled in (KMP_HAS_*)
    generator,    \* the coroutine frame of the generator of search_all
    cached,       \* the function-local static of get_features
    source,       \* regex_pattern::source_
    tree,         \* syntax tree the regex source was printed from (input)
    nfa_states_,  \* compiled_dfa::nfa_states_
    nfa_start_,   \* compiled_dfa::nfa_start_
    states_,      \* compiled_dfa::states_
    error,        \* exception thrown by the last compile_regex, "" if none
    op,           \* name of the last operation
    ret,          \* value the last operation returned
    cmps,         \* byte comparisons made by the last literal search
    threads,      \* per thread: the call it is in and its position in it
    frames        \* per call frame: the automatic variables of the matcher

vars == <<text, pattern, machine, build, generator, cached, source, tree,
          nfa_states_, nfa_start_, states_, error, op, ret, cmps, threads,
          frames>>

-----------------------------------------------------------------------------
(* Bounds of the model *)

MaxTextLen == 4     \* exhaustive short texts over Alphabet
MaxPatLen == 3      \* exhaustive short patterns over Alphabet

Alphabet == {97, 98}
\* long inputs: runs of one byte around a short free core, of lengths that
\* straddle simd_threshold and the vector widths 16, 32 and 64
PadLens == {0, 31, 64}
SuffixLens == {0, 32}
PatPadLens == {7, 32, 64}
Cores == {<<>>, <<97>>, <<98>>}

Rep(c, k) == [i \in 1..k |-> c]
Words(A, n) == UNION {[1..k -> A] : k \in 0..n}

ShortTexts == Words(Alphabet, MaxTextLen)
LongTexts ==
    {Rep(x, k) \o w \o Rep(y, j) :
        x \in Alphabet, y \in Alphabet, k \in PadLens, j \in SuffixLens,
        w \in Cores}
Texts == ShortTexts \cup LongTexts

ShortPatterns == Words(Alphabet, MaxPatLen)
LongPatterns ==
    {Rep(97, k) \o w : k \in PatPadLens, w \in Cores}
Patterns == ShortPatterns \cup LongPatterns

-----------------------------------------------------------------------------
(* Helpers *)

At(s, i) == s[i + 1]
SetMin(S) == CHOOSE x \in S : \A y \in S : x <= y

\* a local variable: Body with its parameter bound to the value v
Let(v, Body(_)) == Body(v)

\* std::nullopt of std::optional<size_type>
None == -1
\* nullptr of const char*
NullPtr == -1
\* value of `cached` before the first call of get_features
Unset == {"unset"}

-----------------------------------------------------------------------------
(* config.hpp *)

simd_threshold == 64
ascii_size == 128
max_dfa_states == 10000

-----------------------------------------------------------------------------
(* failure.hpp *)

\* at most cnt iterations of
\* while (k > 0 && *pattern_i != pattern[k]) k = failure[k - 1];
RECURSIVE failure_fallback_loop(_, _, _, _, _)
failure_fallback_loop(P, F, k, i, cnt) ==
    IF cnt <= 0 \/ ~(k > 0 /\ At(P, i) # At(P, k)) THEN k
    ELSE IF cnt = 1 THEN At(F, k - 1)
    ELSE Let(failure_fallback_loop(P, F, k, i, cnt \div 2), LAMBDA mid :
             IF mid = 0 THEN 0
             ELSE failure_fallback_loop(P, F, mid, i, cnt - cnt \div 2))

\* the whole while loop: k decreases in every iteration
failure_fallback(P, F, k, i) == failure_fallback_loop(P, F, k, i, k)

\* variant of the loop body that stores failure[k - 1] where the next
\* pattern byte repeats (the "optimized" table, which is not the prefix
\* function)
failure_step_optimized(P, st) ==
    Let(failure_fallback(P, st.F, st.k, st.i), LAMBDA k1 :
    Let(IF At(P, st.i) = At(P, k1) THEN k1 + 1 ELSE k1, LAMBDA k :
        [F |-> [st.F EXCEPT ![st.i + 1] =
                   IF k > 0 /\ st.i + 1 < Len(P) /\ At(P, st.i + 1) = At(P, k)
                   THEN At(st.F, k - 1) ELSE k],
         k |-> k, i |-> st.i + 1]))

\* body of the loop `for (i = 1; i < m; ++i)`; st = [F, k, i]
failure_step(P, st) ==
    Let(failure_fallback(P, st.F, st.k, st.i), LAMBDA k1 :
    Let(IF At(P, st.i) = At(P, k1) THEN k1 + 1 ELSE k1, LAMBDA k :
        [F |-> [st.F EXCEPT ![st.i + 1] = k], k |-> k, i |-> st.i + 1]))

\* cnt consecutive iterations of the loop
RECURSIVE failure_loop(_, _, _)
failure_loop(P, st, cnt) ==
    IF cnt <= 0 THEN st
    ELSE IF cnt = 1 THEN failure_step(P, st)
    ELSE Let(failure_loop(P, st, cnt \div 2), LAMBDA mid :
             IF mid.i >= Len(P) THEN mid
             ELSE failure_loop(P, mid, cnt - cnt \div 2))

compute_failure(P) ==
    IF Len(P) = 0 THEN <<>>
    ELSE failure_loop(P, [F |-> [j \in 1..Len(P) |-> 0], k |-> 0, i |-> 1],
                      Len(P) - 1).F

\* pattern.hpp, compiled_pattern<Pattern>::compute_failure (consteval)
RECURSIVE compiled_failure_fallback_loop(_, _, _, _, _)
compiled_failure_fallback_loop(P, F, k, i, cnt) ==
    IF cnt <= 0 \/ ~(k > 0 /\ At(P, i) # At(P, k)) THEN k
    ELSE IF cnt = 1 THEN At(F, k - 1)
    ELSE Let(compiled_failure_fallback_loop(P, F, k, i, cnt \div 2),
             LAMBDA mid :
             IF mid = 0 THEN 0
             ELSE compiled_failure_fallback_loop(P, F, mid, i,
                                                 cnt - cnt \div 2))

compiled_failure_fallback(P, F, k, i) ==
    compiled_failure_fallback_loop(P, F, k, i, k)

compiled_failure_step(P, st) ==
    Let(compiled_failure_fallback(P, st.F, st.k, st.i), LAMBDA k1 :
    Let(IF At(P, st.i) = At(P, k1) THEN k1 + 1 ELSE k1, LAMBDA k :
        [F |-> [st.F EXCEPT ![st.i + 1] = k], k |-> k, i |-> st.i + 1]))

RECURSIVE compiled_failure_loop(_, _, _)
compiled_failure_loop(P, st, cnt) ==
    IF cnt <= 0 THEN st
    ELSE IF cnt = 1 THEN compiled_failure_step(P, st)
    ELSE Let(compiled_failure_loop(P, st, cnt \div 2), LAMBDA mid :
             IF mid.i >= Len(P) THEN mid
             ELSE compiled_failure_loop(P, mid, cnt - cnt \div 2))

compiled_pattern_compute_failure(P) ==
    IF Len(P) = 0 THEN <<>>
    ELSE compiled_failure_loop(
             P, [F |-> [[j \in 1..Len(P) |-> 0] EXCEPT ![1] = 0],
                 k |-> 0, i |-> 1], Len(P) - 1).F

-----------------------------------------------------------------------------
(* dispatch.hpp: CPU feature probe *)

\* A machine, as the probe sees it: the maximum CPUID leaf, the set bits of
\* CPUID.1:ECX, of XCR0 and of CPUID.7.0:EBX.
Machine(ml, ecx1, xcr0, ebx7) ==
    [max_leaf |-> ml, ecx1 |-> ecx1, xcr0 |-> xcr0, ebx7 |-> ebx7]

\* variant of the probe that trusts CPUID leaf 7 without asking the OS
detect_features_cpuid_only(hw) ==
    IF hw.max_leaf < 1 THEN {}
    ELSE (IF 20 \in hw.ecx1 THEN {"sse42"} ELSE {})
         \cup (IF hw.max_leaf >= 7 /\ 5 \in hw.ebx7 THEN {"avx2"} ELSE {})
         \cup (IF hw.max_leaf >= 7 /\ 16 \in hw.ebx7
               THEN {"avx512f"} ELSE {})
         \cup (IF hw.max_leaf >= 7 /\ 30 \in hw.ebx7
               THEN {"avx512bw"} ELSE {})

detect_features(hw) ==
    IF hw.max_leaf < 1 THEN {}
    ELSE
      LET sse == IF 20 \in hw.ecx1 THEN {"sse42"} ELSE {}
          os_avx == {1, 2} \subseteq hw.xcr0
          os_avx512 == {1, 2, 5, 6, 7} \subseteq hw.xcr0
      IN IF 27 \notin hw.ecx1 THEN sse
         ELSE IF ~os_avx THEN sse
         ELSE IF hw.max_leaf >= 7
              THEN sse
                   \cup (IF 5 \in hw.ebx7 THEN {"avx2"} ELSE {})
                   \cup (IF os_avx512 /\ 16 \in hw.ebx7
                         THEN {"avx512f"} \cup
                              (IF 30 \in hw.ebx7 THEN {"avx512bw"} ELSE {})
                         ELSE {})
              ELSE sse

\* static const cpu_feature cached = detect_features();
get_features(c, hw) == IF c = Unset THEN detect_features(hw) ELSE c

has_feature(flags, test) == test \subseteq flags
has_avx512(f) == has_feature(f, {"avx512f", "avx512bw"})
has_avx2(f) == has_feature(f, {"avx2"})
has_sse42(f) == has_feature(f, {"sse42"})

\* config.hpp: KMP_HAS_AVX512, KMP_HAS_AVX2 and KMP_HAS_SSE42 are 1 when the
\* compiler flags of the build define __AVX512F__ and __AVX512BW__, __AVX2__,
\* __SSE4_2__; a build is the set of the engines whose macro is 1
KMP_HAS_AVX512(b) == "avx512" \in b
KMP_HAS_AVX2(b) == "avx2" \in b
KMP_HAS_SSE42(b) == "sse42" \in b

AllEngines == {"sse42", "avx2", "avx512"}

\* builds without vector flags, with -msse4.2, with -mavx2 and with
\* -mavx512f -mavx512bw (each flag implies the narrower ones)
Builds == {{}, {"sse42"}, {"sse42", "avx2"}, AllEngines}

Machines ==
    { Machine(0, {20, 27}, {0, 1, 2, 5, 6, 7}, {5, 16, 30}),
      Machine(1, {20}, {}, {}),
      Machine(7, {20, 27}, {0, 1, 2}, {5, 16, 30}),
      Machine(7, {20, 27}, {0, 1, 2, 5, 6, 7}, {5, 16}),
      Machine(7, {20, 27}, {0, 1, 2, 5, 6, 7}, {5, 16, 30}) }

\* the platforms of the literal API: every build on every machine
Platforms == Machines \X Builds

-----------------------------------------------------------------------------
(* search.hpp: scalar KMP.  A result is [it |-> iterator, cmps |-> number of *)
(* text/pattern byte comparisons]; text_last is the iterator Len(T).        *)

\* one evaluation of the condition of
\* while (j > 0 && *it != pattern[j]) j = failure[j - 1];
\* and of the body if it holds; st = [j, cmps, done], X[x] is *it
fallback_test(X, x, P, F, st) ==
    IF st.j > 0
    THEN IF At(X, x) # At(P, st.j)
         THEN [j |-> At(F, st.j - 1), cmps |-> st.cmps + 1, done |-> FALSE]
         ELSE [j |-> st.j, cmps |-> st.cmps + 1, done |-> TRUE]
    ELSE [j |-> st.j, cmps |-> st.cmps, done |-> TRUE]

\* at most cnt evaluations of the loop condition
RECURSIVE scalar_fallback_loop(_, _, _, _, _, _)
scalar_fallback_loop(T, P, F, i, st, cnt) ==
    IF st.done \/ cnt <= 0 THEN st
    ELSE IF cnt = 1 THEN fallback_test(T, i, P, F, st)
    ELSE Let(scalar_fallback_loop(T, P, F, i, st, cnt \div 2), LAMBDA mid :
             IF mid.done THEN mid
             ELSE scalar_fallback_loop(T, P, F, i, mid, cnt - cnt \div 2))

\* the whole while loop: j decreases in every iteration
scalar_fallback(T, P, F, i, j, c) ==
    scalar_fallback_loop(T, P, F, i,
                         [j |-> j, cmps |-> c, done |-> FALSE], j + 1)

\* body of `for (it = text_first; it != text_last; ++it)`, loop test
\* included; st = [i, j, cmps, done, it]
scalar_step(T, P, F, st) ==
    IF st.i >= Len(T) THEN [st EXCEPT !.done = TRUE, !.it = Len(T)]
    ELSE Let(scalar_fallback(T, P, F, st.i, st.j, st.cmps), LAMBDA fb :
         Let(IF At(T, st.i) = At(P, fb.j) THEN fb.j + 1 ELSE fb.j, LAMBDA j :
             IF j = Len(P)
             THEN [i |-> st.i, j |-> j, cmps |-> fb.cmps + 1, done |-> TRUE,
                   it |-> st.i - Len(P) + 1]
             ELSE [i |-> st.i + 1, j |-> j, cmps |-> fb.cmps + 1,
                   done |-> FALSE, it |-> st.it]))

\* at most cnt consecutive iterations, stopping at a return
RECURSIVE scalar_loop(_, _, _, _, _)
scalar_loop(T, P, F, st, cnt) ==
    IF st.done \/ cnt <= 0 THEN st
    ELSE IF cnt = 1 THEN scalar_step(T, P, F, st)
    ELSE Let(scalar_loop(T, P, F, st, cnt \div 2), LAMBDA mid :
             IF mid.done THEN mid
             ELSE scalar_loop(T, P, F, mid, cnt - cnt \div 2))

scalar_result(st) == [it |-> st.it, cmps |-> st.cmps]

kmp_search_scalar(T, P, F) ==
    IF Len(P) = 0 THEN [it |-> 0, cmps |-> 0]
    ELSE scalar_result(scalar_loop(T, P, F,
             [i |-> 0, j |-> 0, cmps |-> 0, done |-> FALSE, it |-> 0],
             Len(T) + 1))

-----------------------------------------------------------------------------
(* sse42.hpp.  A pointer into the text is its offset; a haystack is the     *)
(* buffer H together with the offset `from` of its first byte.              *)

\* variant of the chunk test that takes the highest set bit of the mask
first_eq_in_chunk_highest(H, ptr, w, ch) ==
    LET hits == {i \in ptr..(ptr + w - 1) : At(H, i) = ch}
    IN IF hits = {} THEN NullPtr
       ELSE CHOOSE i \in hits : \A j \in hits : j <= i

\* one vector chunk of width w: compare all lanes, count trailing zeros
first_eq_in_chunk(H, ptr, w, ch) ==
    LET hits == {i \in ptr..(ptr + w - 1) : At(H, i) = ch}
    IN IF hits = {} THEN NullPtr ELSE SetMin(hits)

\* while (ptr + w <= end) { ... ptr += w; }
RECURSIVE scan_chunks(_, _, _, _, _)
\* variant of the loop that is bounded by the end of the buffer instead of
\* the end of the haystack and drops the hits past the haystack
scan_chunks_to_buffer_end(H, ptr, end, w, ch) ==
    IF ptr + w <= Len(H)
    THEN Let(first_eq_in_chunk(H, ptr, w, ch), LAMBDA r :
             IF r # NullPtr /\ r < end THEN [hit |-> r, ptr |-> ptr]
             ELSE scan_chunks(H, ptr + w, end, w, ch))
    ELSE [hit |-> NullPtr, ptr |-> ptr]

scan_chunks(H, ptr, end, w, ch) ==
    IF ptr + w <= end
    THEN Let(first_eq_in_chunk(H, ptr, w, ch), LAMBDA r :
             IF r # NullPtr THEN [hit |-> r, ptr |-> ptr]
             ELSE scan_chunks(H, ptr + w, end, w, ch))
    ELSE [hit |-> NullPtr, ptr |-> ptr]

\* if (ptr + w <= end) { ... ptr += w; }
scan_one_chunk(H, ptr, end, w, ch) ==
    IF ptr + w <= end
    THEN Let(first_eq_in_chunk(H, ptr, w, ch), LAMBDA r :
             IF r # NullPtr THEN [hit |-> r, ptr |-> ptr]
             ELSE [hit |-> NullPtr, ptr |-> ptr + w])
    ELSE [hit |-> NullPtr, ptr |-> ptr]

\* while (ptr < end) { if (*ptr == needle_char) return ptr; ++ptr; }
scan_tail(H, ptr, end, ch) ==
    LET hits == {i \in ptr..(end - 1) : At(H, i) = ch}
    IN IF hits = {} THEN NullPtr ELSE SetMin(hits)

find_first_char_sse42(H, from, haystack_len, needle_char) ==
    IF haystack_len = 0 THEN NullPtr
    ELSE Let(scan_chunks(H, from, from + haystack_len, 16, needle_char),
             LAMBDA v :
             IF v.hit # NullPtr THEN v.hit
             ELSE scan_tail(H, v.ptr, from + haystack_len, needle_char))

\* while (j < pattern_len && match[j] == pattern[j]) ++j;
\* the loop stops at the first j with match[j] != pattern[j], after one
\* comparison for every j it passed and one for the j it stopped at
sse42_verify(T, P, match, j, c) ==
    LET diff == {x \in j..(Len(P) - 1) : At(T, match + x) # At(P, x)}
    IN IF diff = {} THEN [j |-> Len(P), cmps |-> c + (Len(P) - j)]
       ELSE [j |-> SetMin(diff), cmps |-> c + (SetMin(diff) - j) + 1]

\* while (j > 0 && match[j] != pattern[j]) j = failure[j - 1];
RECURSIVE sse42_fallback_loop(_, _, _, _, _, _)
sse42_fallback_loop(T, P, F, match, st, cnt) ==
    IF st.done \/ cnt <= 0 THEN st
    ELSE IF cnt = 1 THEN fallback_test(T, match + st.j, P, F, st)
    ELSE Let(sse42_fallback_loop(T, P, F, match, st, cnt \div 2), LAMBDA mid :
             IF mid.done THEN mid
             ELSE sse42_fallback_loop(T, P, F, match, mid, cnt - cnt \div 2))

sse42_fallback(T, P, F, match, j, c) ==
    sse42_fallback_loop(T, P, F, match,
                        [j |-> j, cmps |-> c, done |-> FALSE], j + 1)

\* value of an engine whose loop has not returned after Len(T) + 1 rounds
Diverged == -2

\* variant of the loop body that resumes after the verified prefix
\* instead of at match + 1
sse42_step_skip_verified(T, P, F, st) ==
    LET text_end == Len(T) - Len(P) + 1
    IN IF st.text_ptr >= text_end
       THEN [st EXCEPT !.done = TRUE, !.ptr = NullPtr]
       ELSE Let(find_first_char_sse42(T, st.text_ptr,
                    text_end - st.text_ptr, At(P, 0)), LAMBDA match :
            IF match = NullPtr THEN [st EXCEPT !.done = TRUE, !.ptr = NullPtr]
            ELSE Let(sse42_verify(T, P, match, 1, st.cmps), LAMBDA v :
                 IF v.j = Len(P)
                 THEN [st EXCEPT !.done = TRUE, !.ptr = match, !.cmps = v.cmps]
                 ELSE [st EXCEPT !.text_ptr = match + v.j, !.cmps = v.cmps]))

\* body of `while (text_ptr < text_end)`, loop test included;
\* st = [text_ptr, cmps, done, ptr]
sse42_step(T, P, F, st) ==
    LET text_end == Len(T) - Len(P) + 1
    IN IF st.text_ptr >= text_end
       THEN [st EXCEPT !.done = TRUE, !.ptr = NullPtr]
       ELSE Let(find_first_char_sse42(T, st.text_ptr,
                    text_end - st.text_ptr, At(P, 0)), LAMBDA match :
            IF match = NullPtr THEN [st EXCEPT !.done = TRUE, !.ptr = NullPtr]
            ELSE Let(sse42_verify(T, P, match, 1, st.cmps), LAMBDA v :
                 IF v.j = Len(P)
                 THEN [st EXCEPT !.done = TRUE, !.ptr = match, !.cmps = v.cmps]
                 ELSE [st EXCEPT
                          !.text_ptr = match + 1,
                          !.cmps = sse42_fallback(T, P, F, match, v.j,
                                                  v.cmps).cmps]))

RECURSIVE sse42_loop(_, _, _, _, _)
sse42_loop(T, P, F, st, cnt) ==
    IF st.done \/ cnt <= 0 THEN st
    ELSE IF cnt = 1 THEN sse42_step(T, P, F, st)
    ELSE Let(sse42_loop(T, P, F, st, cnt \div 2), LAMBDA mid :
             IF mid.done THEN mid
             ELSE sse42_loop(T, P, F, mid, cnt - cnt \div 2))

EngineStart == [text_ptr |-> 0, cmps |-> 0, done |-> FALSE, ptr |-> Diverged]

simd_result(st) == [ptr |-> st.ptr, cmps |-> st.cmps]

kmp_search_sse42(T, P, F) ==
    IF Len(P) = 0 THEN [ptr |-> 0, cmps |-> 0]
    ELSE IF Len(T) < Len(P) THEN [ptr |-> NullPtr, cmps |-> 0]
    ELSE simd_result(sse42_loop(T, P, F, EngineStart, Len(T) + 1))

-----------------------------------------------------------------------------
(* avx2.hpp *)

find_first_char_avx2(H, from, haystack_len, needle_char) ==
    IF haystack_len = 0 THEN NullPtr
    ELSE Let(scan_chunks(H, from, from + haystack_len, 32, needle_char),
             LAMBDA v32 :
             IF v32.hit # NullPtr THEN v32.hit
             ELSE Let(scan_chunks(H, v32.ptr, from + haystack_len, 16,
                                  needle_char), LAMBDA v16 :
                  IF v16.hit # NullPtr THEN v16.hit
                  ELSE scan_tail(H, v16.ptr, from + haystack_len,
                                 needle_char)))

\* one vector compare of width w at index i: the lowest differing lane, or
\* -1 when all w lanes are equal
first_ne_in_chunk(A, a0, B, i, w) ==
    LET diff == {x \in i..(i + w - 1) : At(A, a0 + x) # At(B, x)}
    IN IF diff = {} THEN -1 ELSE SetMin(diff)

\* while (i + w <= len) { ... i += w; }   A result is [k |-> index of the
\* first mismatch or -1, i |-> index after the loop, cmps |-> bytes compared]
RECURSIVE compare_chunks(_, _, _, _, _, _, _)
compare_chunks(A, a0, B, i, len, w, c) ==
    IF i + w <= len
    THEN Let(first_ne_in_chunk(A, a0, B, i, w), LAMBDA d :
             IF d # -1 THEN [k |-> d, i |-> i, cmps |-> c + w]
             ELSE compare_chunks(A, a0, B, i + w, len, w, c + w))
    ELSE [k |-> -1, i |-> i, cmps |-> c]

\* if (i + w <= len) { ... i += w; }
compare_one_chunk(A, a0, B, i, len, w, c) ==
    IF i + w <= len
    THEN Let(first_ne_in_chunk(A, a0, B, i, w), LAMBDA d :
             IF d # -1 THEN [k |-> d, i |-> i, cmps |-> c + w]
             ELSE [k |-> -1, i |-> i + w, cmps |-> c + w])
    ELSE [k |-> -1, i |-> i, cmps |-> c]

\* variant of the scalar loop that takes the remaining bytes for equal
compare_tail_equal(A, a0, B, i, len, c) ==
    [k |-> len, cmps |-> c + (len - i)]

\* while (i < len) { if (a[i] != b[i]) return i; ++i; } return len;
compare_tail(A, a0, B, i, len, c) ==
    LET diff == {x \in i..(len - 1) : At(A, a0 + x) # At(B, x)}
    IN IF diff = {} THEN [k |-> len, cmps |-> c + (len - i)]
       ELSE [k |-> SetMin(diff), cmps |-> c + (SetMin(diff) - i) + 1]

\* compare_avx2(a, b, len) with a = A + a0 and b = B
compare_avx2(A, a0, B, len) ==
    Let(compare_chunks(A, a0, B, 0, len, 32, 0), LAMBDA v :
        IF v.k # -1 THEN [k |-> v.k, cmps |-> v.cmps]
        ELSE compare_tail(A, a0, B, v.i, len, v.cmps))

\* variant of the loop body that skips the whole matched prefix on a
\* mismatch, ignoring the failure table
avx2_step_skip_matched(T, P, F, st) ==
    LET text_end == Len(T) - Len(P) + 1
    IN IF st.text_ptr >= text_end
       THEN [st EXCEPT !.done = TRUE, !.ptr = NullPtr]
       ELSE Let(find_first_char_avx2(T, st.text_ptr,
                    text_end - st.text_ptr, At(P, 0)), LAMBDA match :
            IF match = NullPtr THEN [st EXCEPT !.done = TRUE, !.ptr = NullPtr]
            ELSE Let(compare_avx2(T, match, P, Len(P)), LAMBDA v :
                 IF v.k = Len(P)
                 THEN [st EXCEPT !.done = TRUE, !.ptr = match,
                                 !.cmps = st.cmps + v.cmps]
                 ELSE [st EXCEPT
                          !.text_ptr = match + (IF v.k > 0 THEN v.k ELSE 1),
                          !.cmps = st.cmps + v.cmps]))

\* body of `while (text_ptr < text_end)`, loop test included; v.k is
\* match_len, the new text_ptr is match + skip
avx2_step(T, P, F, st) ==
    LET text_end == Len(T) - Len(P) + 1
    IN IF st.text_ptr >= text_end
       THEN [st EXCEPT !.done = TRUE, !.ptr = NullPtr]
       ELSE Let(find_first_char_avx2(T, st.text_ptr,
                    text_end - st.text_ptr, At(P, 0)), LAMBDA match :
            IF match = NullPtr THEN [st EXCEPT !.done = TRUE, !.ptr = NullPtr]
            ELSE Let(compare_avx2(T, match, P, Len(P)), LAMBDA v :
                 IF v.k = Len(P)
                 THEN [st EXCEPT !.done = TRUE, !.ptr = match,
                                 !.cmps = st.cmps + v.cmps]
                 ELSE [st EXCEPT
                          !.text_ptr = match + (IF v.k > 0
                                                THEN v.k - At(F, v.k - 1)
                                                ELSE 1),
                          !.cmps = st.cmps + v.cmps]))

RECURSIVE avx2_loop(_, _, _, _, _)
avx2_loop(T, P, F, st, cnt) ==
    IF st.done \/ cnt <= 0 THEN st
    ELSE IF cnt = 1 THEN avx2_step(T, P, F, st)
    ELSE Let(avx2_loop(T, P, F, st, cnt \div 2), LAMBDA mid :
             IF mid.done THEN mid
             ELSE avx2_loop(T, P, F, mid, cnt - cnt \div 2))

kmp_search_avx2(T, P, F) ==
    IF Len(P) = 0 THEN [ptr |-> 0, cmps |-> 0]
    ELSE IF Len(T) < Len(P) THEN [ptr |-> NullPtr, cmps |-> 0]
    ELSE simd_result(avx2_loop(T, P, F, EngineStart, Len(T) + 1))

-----------------------------------------------------------------------------
(* avx512.hpp *)

\* variant of the scan without the scalar loop over the last bytes
find_first_char_avx512_no_tail(H, from, haystack_len, needle_char) ==
    IF haystack_len = 0 THEN NullPtr
    ELSE Let(scan_chunks(H, from, from + haystack_len, 64, needle_char),
             LAMBDA v64 :
             IF v64.hit # NullPtr THEN v64.hit
             ELSE Let(scan_one_chunk(H, v64.ptr, from + haystack_len, 32,
                                     needle_char), LAMBDA v32 :
                  IF v32.hit # NullPtr THEN v32.hit
                  ELSE scan_one_chunk(H, v32.ptr, from + haystack_len, 16,
                                      needle_char).hit))

find_first_char_avx512(H, from, haystack_len, needle_char) ==
    IF haystack_len = 0 THEN NullPtr
    ELSE Let(scan_chunks(H, from, from + haystack_len, 64, needle_char),
             LAMBDA v64 :
             IF v64.hit # NullPtr THEN v64.hit
             ELSE Let(scan_one_chunk(H, v64.ptr, from + haystack_len, 32,
                                     needle_char), LAMBDA v32 :
                  IF v32.hit # NullPtr THEN v32.hit
                  ELSE Let(scan_one_chunk(H, v32.ptr, from + haystack_len, 16,
                                          needle_char), LAMBDA v16 :
                       IF v16.hit # NullPtr THEN v16.hit
                       ELSE scan_tail(H, v16.ptr, from + haystack_len,
                                      needle_char))))

compare_avx512(A, a0, B, len) ==
    Let(compare_chunks(A, a0, B, 0, len, 64, 0), LAMBDA v64 :
        IF v64.k # -1 THEN [k |-> v64.k, cmps |-> v64.cmps]
        ELSE Let(compare_one_chunk(A, a0, B, v64.i, len, 32, v64.cmps),
                 LAMBDA v32 :
                 IF v32.k # -1 THEN [k |-> v32.k, cmps |-> v32.cmps]
                 ELSE compare_tail(A, a0, B, v32.i, len, v32.cmps)))

\* variant of the loop body that reads the failure table one entry too far
avx512_step_failure_off_by_one(T, P, F, st) ==
    LET text_end == Len(T) - Len(P) + 1
    IN IF st.text_ptr >= text_end
       THEN [st EXCEPT !.done = TRUE, !.ptr = NullPtr]
       ELSE Let(find_first_char_avx512(T, st.text_ptr,
                    text_end - st.text_ptr, At(P, 0)), LAMBDA match :
            IF match = NullPtr THEN [st EXCEPT !.done = TRUE, !.ptr = NullPtr]
            ELSE Let(compare_avx512(T, match, P, Len(P)), LAMBDA v :
                 IF v.k = Len(P)
                 THEN [st EXCEPT !.done = TRUE, !.ptr = match,
                                 !.cmps = st.cmps + v.cmps]
                 ELSE [st EXCEPT
                          !.text_ptr = match + (IF v.k > 0
                                                THEN v.k - At(F, v.k)
                                                ELSE 1),
                          !.cmps = st.cmps + v.cmps]))

\* body of `while (text_ptr < text_end)`, loop test included; v.k is
\* match_len, the new text_ptr is match + skip
avx512_step(T, P, F, st) ==
    LET text_end == Len(T) - Len(P) + 1
    IN IF st.text_ptr >= text_end
       THEN [st EXCEPT !.done = TRUE, !.ptr = NullPtr]
       ELSE Let(find_first_char_avx512(T, st.text_ptr,
                    text_end - st.text_ptr, At(P, 0)), LAMBDA match :
            IF match = NullPtr THEN [st EXCEPT !.done = TRUE, !.ptr = NullPtr]
            ELSE Let(compare_avx512(T, match, P, Len(P)), LAMBDA v :
                 IF v.k = Len(P)
                 THEN [st EXCEPT !.done = TRUE, !.ptr = match,
                                 !.cmps = st.cmps + v.cmps]
                 ELSE [st EXCEPT
                          !.text_ptr = match + (IF v.k > 0
                                                THEN v.k - At(F, v.k - 1)
                                                ELSE 1),
                          !.cmps = st.cmps + v.cmps]))

RECURSIVE avx512_loop(_, _, _, _, _)
avx512_loop(T, P, F, st, cnt) ==
    IF st.done \/ cnt <= 0 THEN st
    ELSE IF cnt = 1 THEN avx512_step(T, P, F, st)
    ELSE Let(avx512_loop(T, P, F, st, cnt \div 2), LAMBDA mid :
             IF mid.done THEN mid
             ELSE avx512_loop(T, P, F, mid, cnt - cnt \div 2))

kmp_search_avx512(T, P, F) ==
    IF Len(P) = 0 THEN [ptr |-> 0, cmps |-> 0]
    ELSE IF Len(T) < Len(P) THEN [ptr |-> NullPtr, cmps |-> 0]
    ELSE simd_result(avx512_loop(T, P, F, EngineStart, Len(T) + 1))

-----------------------------------------------------------------------------
(* search.hpp: dispatch and public literal API *)

\* if (result) return text_first + (result - text_ptr); return text_last;
engine_result(T, r) ==
    [it |-> IF r.ptr # NullPtr THEN r.ptr ELSE Len(T), cmps |-> r.cmps]

\* variant of the dispatch that tries AVX2 before AVX-512 and runs an engine
\* below the threshold
search_dispatch_avx2_first(T, P, contiguous, f, failure, b) ==
    IF contiguous
    THEN IF KMP_HAS_AVX2(b) /\ has_avx2(f)
         THEN engine_result(T, kmp_search_avx2(T, P, failure))
         ELSE IF KMP_HAS_AVX512(b) /\ has_avx512(f)
         THEN engine_result(T, kmp_search_avx512(T, P, failure))
         ELSE IF KMP_HAS_SSE42(b) /\ has_sse42(f)
         THEN engine_result(T, kmp_search_sse42(T, P, failure))
         ELSE kmp_search_scalar(T, P, failure)
    ELSE kmp_search_scalar(T, P, failure)

\* the part of search after the failure table is built; each branch of the
\* runtime dispatch is compiled only under its #if KMP_HAS_*
search_dispatch(T, P, contiguous, f, failure, b) ==
    IF contiguous /\ Len(T) >= simd_threshold
    THEN IF KMP_HAS_AVX512(b) /\ has_avx512(f)
         THEN engine_result(T, kmp_search_avx512(T, P, failure))
         ELSE IF KMP_HAS_AVX2(b) /\ has_avx2(f)
         THEN engine_result(T, kmp_search_avx2(T, P, failure))
         ELSE IF KMP_HAS_SSE42(b) /\ has_sse42(f)
         THEN engine_result(T, kmp_search_sse42(T, P, failure))
         ELSE kmp_search_scalar(T, P, failure)
    ELSE kmp_search_scalar(T, P, failure)

\* variant of search in which the empty pattern is never found
search_empty_not_found(T, P, contiguous, f, b) ==
    IF Len(P) = 0 \/ Len(T) < Len(P) THEN [it |-> Len(T), cmps |-> 0]
    ELSE search_dispatch(T, P, contiguous, f, compute_failure(P), b)

\* search(text_first, text_last, pattern_first, pattern_last); `contiguous`
\* is the if-constexpr condition on the iterator types, f the value of
\* get_features(), b the build
search(T, P, contiguous, f, b) ==
    IF Len(P) = 0 THEN [it |-> 0, cmps |-> 0]
    ELSE IF Len(T) < Len(P) THEN [it |-> Len(T), cmps |-> 0]
    ELSE search_dispatch(T, P, contiguous, f, compute_failure(P), b)

\* if (it == text.end()) return std::nullopt; return distance(begin, it);
pos_of(T, r) ==
    [pos |-> IF r.it = Len(T) THEN None ELSE r.it, cmps |-> r.cmps]

search_pos(T, P, f, b) == pos_of(T, search(T, P, TRUE, f, b))

\* at most cnt iterations of
\* while (j > 0 && text[i] != pattern[j]) j = failure[j - 1];
RECURSIVE search_all_fallback_loop(_, _, _, _, _, _)
search_all_fallback_loop(T, P, F, i, j, cnt) ==
    IF cnt <= 0 \/ ~(j > 0 /\ At(T, i) # At(P, j)) THEN j
    ELSE IF cnt = 1 THEN At(F, j - 1)
    ELSE Let(search_all_fallback_loop(T, P, F, i, j, cnt \div 2), LAMBDA mid :
             IF mid = 0 THEN 0
             ELSE search_all_fallback_loop(T, P, F, i, mid, cnt - cnt \div 2))

search_all_fallback(T, P, F, i, j) ==
    search_all_fallback_loop(T, P, F, i, j, j)

\* variant of the loop body that restarts the pattern after a match, so
\* that overlapping occurrences are lost
search_all_step_restart(T, P, F, st) ==
    Let(search_all_fallback(T, P, F, st.i, st.j), LAMBDA j1 :
    Let(IF At(T, st.i) = At(P, j1) THEN j1 + 1 ELSE j1, LAMBDA j :
        IF j = Len(P)
        THEN [i |-> st.i + 1, j |-> 0,
              out |-> Append(st.out, st.i - Len(P) + 1)]
        ELSE [i |-> st.i + 1, j |-> j, out |-> st.out]))

\* the fallback loop and `if (text[i] == pattern[j]) ++j;` of one iteration
\* of the for loop: the value of j at `if (j == m)`
search_all_match(T, P, F, i, j) ==
    Let(search_all_fallback(T, P, F, i, j), LAMBDA j1 :
        IF At(T, i) = At(P, j1) THEN j1 + 1 ELSE j1)

\* body of `for (i = 0; i < n; ++i)` when the caller resumes the generator
\* at once; st = [i, j, out], out the values yielded so far
search_all_step(T, P, F, st) ==
    Let(search_all_match(T, P, F, st.i, st.j), LAMBDA j :
        IF j = Len(P)
        THEN [i |-> st.i + 1, j |-> At(F, j - 1),
              out |-> Append(st.out, st.i - Len(P) + 1)]
        ELSE [i |-> st.i + 1, j |-> j, out |-> st.out])

RECURSIVE search_all_loop(_, _, _, _, _)
search_all_loop(T, P, F, st, cnt) ==
    IF cnt <= 0 THEN st
    ELSE IF cnt = 1 THEN search_all_step(T, P, F, st)
    ELSE Let(search_all_loop(T, P, F, st, cnt \div 2), LAMBDA mid :
             IF mid.i >= Len(T) THEN mid
             ELSE search_all_loop(T, P, F, mid, cnt - cnt \div 2))

\* the generator search_all drained by a caller that touches neither buffer:
\* the sequence of the values it yields
search_all(T, P) ==
    IF Len(P) = 0 \/ Len(T) < Len(P) THEN <<>>
    ELSE search_all_loop(T, P, compute_failure(P),
                         [i |-> 0, j |-> 0, out |-> <<>>], Len(T)).out

\* no generator object exists
NoGenerator == [pc |-> "none"]

\* the coroutine frame search_all(text, pattern) returns: the generator is
\* suspended at its initial suspend point, no statement of the body has run
search_all_call ==
    [pc |-> "initial", n |-> 0, m |-> 0, failure |-> <<>>, i |-> 0, j |-> 0]

\* the condition `i < n` and one iteration of the for loop, up to its
\* co_yield if it reaches it; T and P are the buffers the views refer to
search_all_iteration(T, P, g) ==
    IF g.i >= g.n THEN [g EXCEPT !.pc = "final"]
    ELSE Let(search_all_match(T, P, g.failure, g.i, g.j), LAMBDA j :
             IF j = g.m THEN [g EXCEPT !.pc = "co_yield", !.j = j]
             ELSE [g EXCEPT !.i = g.i + 1, !.j = j])

\* at most cnt iterations of the running coroutine
RECURSIVE search_all_run_loop(_, _, _, _)
search_all_run_loop(T, P, g, cnt) ==
    IF cnt <= 0 \/ g.pc # "running" THEN g
    ELSE IF cnt = 1 THEN search_all_iteration(T, P, g)
    ELSE Let(search_all_run_loop(T, P, g, cnt \div 2), LAMBDA mid :
             search_all_run_loop(T, P, mid, cnt - cnt \div 2))

\* the for loop from its condition to the next co_yield or to the end of
\* the coroutine
search_all_run(T, P, g) ==
    search_all_run_loop(T, P, [g EXCEPT !.pc = "running"], g.n - g.i + 1)

\* one resumption of the coroutine: from the initial suspend point the
\* length tests and compute_failure, from a co_yield `j = failure[j - 1]`
\* and `++i`, then the loop
search_all_resume(T, P, g) ==
    IF g.pc = "initial"
    THEN IF Len(P) = 0 \/ Len(T) < Len(P)
         THEN [g EXCEPT !.pc = "final", !.n = Len(T), !.m = Len(P)]
         ELSE search_all_run(T, P,
                  [g EXCEPT !.n = Len(T), !.m = Len(P),
                            !.failure = compute_failure(P)])
    ELSE search_all_run(T, P,
             [g EXCEPT !.j = At(g.failure, g.j - 1), !.i = g.i + 1])

\* the operand of the co_yield the frame is suspended at
yielded(g) == g.i - g.m + 1

\* for (auto pos : gen) results.push_back(pos);
\* the elements lo .. hi - 1 of the generator are appended to results
RECURSIVE collect(_, _, _, _)
collect(gen, results, lo, hi) ==
    IF hi <= lo THEN results
    ELSE IF hi = lo + 1 THEN Append(results, At(gen, lo))
    ELSE Let(collect(gen, results, lo, (lo + hi) \div 2), LAMBDA half :
             IF Len(half) >= 0 THEN collect(gen, half, (lo + hi) \div 2, hi)
             ELSE half)

collect_all(gen) == collect(gen, <<>>, 0, Len(gen))

search_all_vec(T, P) == collect_all(search_all(T, P))

\* for (auto _ : gen) ++result;
RECURSIVE count_loop(_, _, _, _)
count_loop(gen, result, lo, hi) ==
    IF hi <= lo THEN result
    ELSE IF hi = lo + 1 THEN result + 1
    ELSE Let(count_loop(gen, result, lo, (lo + hi) \div 2), LAMBDA half :
             IF half >= 0 THEN count_loop(gen, half, (lo + hi) \div 2, hi)
             ELSE half)

count_all(gen) == count_loop(gen, 0, 0, Len(gen))

\* variant of count in which the empty pattern matches at every offset
count_empty_everywhere(T, P) ==
    IF Len(P) = 0 THEN Len(T) + 1 ELSE count_all(search_all(T, P))

count(T, P) == count_all(search_all(T, P))

contains(T, P, f, b) == search_pos(T, P, f, b).pos # None

-----------------------------------------------------------------------------
(* dfa.hpp: char_class, the bitset over the ASCII bytes, as the set of the  *)
(* bytes whose bit is on                                                    *)

\* the bytes the parser tells apart
Ch == [lparen |-> 40, rparen |-> 41, star |-> 42, plus |-> 43, minus |-> 45,
       dot |-> 46, question |-> 63, lbracket |-> 91, backslash |-> 92,
       rbracket |-> 93, caret |-> 94, dollar |-> 36, bar |-> 124,
       d |-> 100, D |-> 68, w |-> 119, W |-> 87, s |-> 115, S |-> 83,
       underscore |-> 95, space |-> 32, tab |-> 9, newline |-> 10,
       cr |-> 13, ff |-> 12, vt |-> 11]

char_class_set(cc, c) == IF c < ascii_size THEN cc \cup {c} ELSE cc

char_class_set_range(cc, from, to) ==
    cc \cup {c \in from..to : c < ascii_size}

char_class_flip(cc) == (0..(ascii_size - 1)) \ cc

char_class_test(cc, c) == c < ascii_size /\ c \in cc

char_class_digit == char_class_set_range({}, 48, 57)

char_class_word ==
    char_class_set(
        char_class_set_range(
            char_class_set_range(
                char_class_set_range({}, 97, 122), 65, 90), 48, 57),
        Ch.underscore)

char_class_space ==
    char_class_set(char_class_set(char_class_set(char_class_set(
        char_class_set(char_class_set({}, Ch.space), Ch.tab), Ch.newline),
        Ch.cr), Ch.ff), Ch.vt)

char_class_any_char == (0..(ascii_size - 1)) \ {Ch.newline}

-----------------------------------------------------------------------------
(* dfa.hpp: NFA states and the Thompson construction.  nfa_states_ is a    *)
(* sequence of nfa_state records; state index i is element i + 1.           *)

\* size_type(-1), the sentinel of an unset successor
no_transition == -1

nfa_state(kind, match_char, match_class, next1, next2) ==
    [kind |-> kind, match_char |-> match_char, match_class |-> match_class,
     next1 |-> next1, next2 |-> next2]

has_next1(s) == s.next1 # no_transition
has_next2(s) == s.next2 # no_transition

\* variant of patch that writes next1 whether or not it is set
patch_overwrite(nfa, state, target) ==
    IF state < Len(nfa)
    THEN [nfa EXCEPT ![state + 1].next1 = target]
    ELSE nfa

\* variant of patch that never writes next2
patch_next1_only(nfa, state, target) ==
    IF state < Len(nfa) /\ ~has_next1(At(nfa, state))
    THEN [nfa EXCEPT ![state + 1].next1 = target]
    ELSE nfa

patch(nfa, state, target) ==
    IF state < Len(nfa) THEN
        IF At(nfa, state).kind = "epsilon" THEN
            IF ~has_next1(At(nfa, state))
            THEN [nfa EXCEPT ![state + 1].next1 = target]
            ELSE IF ~has_next2(At(nfa, state))
            THEN [nfa EXCEPT ![state + 1].next2 = target]
            ELSE nfa
        ELSE IF ~has_next1(At(nfa, state))
        THEN [nfa EXCEPT ![state + 1].next1 = target]
        ELSE nfa
    ELSE nfa

\* The parser's state and result: nfa_states_ so far, the cursor pos, the
\* exception being thrown ("" if none) and the nfa_fragment returned.
parsed(nfa, pos, err, start, end) ==
    [nfa |-> nfa, pos |-> pos, err |-> err, start |-> start, end |-> end]

throw(st, what) == [st EXCEPT !.err = what]

\* push one state and return it as the fragment {state, state}
push_fragment(st, pos, state) ==
    parsed(Append(st.nfa, state), pos, "", Len(st.nfa), Len(st.nfa))

make_star(inner) ==
    [inner EXCEPT
        !.nfa = patch(Append(inner.nfa,
                             nfa_state("epsilon", 0, {}, inner.start,
                                       no_transition)),
                      inner.end, Len(inner.nfa)),
        !.start = Len(inner.nfa),
        !.end = Len(inner.nfa)]

make_plus(inner) ==
    [inner EXCEPT
        !.nfa = patch(Append(inner.nfa,
                             nfa_state("epsilon", 0, {}, inner.start,
                                       no_transition)),
                      inner.end, Len(inner.nfa)),
        !.end = Len(inner.nfa)]

make_optional(inner) ==
    [inner EXCEPT
        !.nfa = patch(Append(Append(inner.nfa,
                                    nfa_state("epsilon", 0, {}, inner.start,
                                              Len(inner.nfa) + 1)),
                             nfa_state("epsilon", 0, {}, no_transition,
                                       no_transition)),
                      inner.end, Len(inner.nfa) + 1),
        !.start = Len(inner.nfa),
        !.end = Len(inner.nfa) + 1]

add_escape_to_class(cc, c) ==
    IF c = Ch.d THEN char_class_set_range(cc, 48, 57)
    ELSE IF c = Ch.w THEN
        char_class_set(
            char_class_set_range(
                char_class_set_range(
                    char_class_set_range(cc, 97, 122), 65, 90), 48, 57),
            Ch.underscore)
    ELSE IF c = Ch.s THEN
        char_class_set(char_class_set(char_class_set(char_class_set(
            char_class_set(char_class_set(cc, Ch.space), Ch.tab), Ch.newline),
            Ch.cr), Ch.ff), Ch.vt)
    ELSE char_class_set(cc, c)

parse_escape(pat, st) ==
    IF st.pos >= Len(pat) THEN throw(st, "Incomplete escape sequence")
    ELSE push_fragment(st, st.pos + 1,
        IF At(pat, st.pos) = Ch.d THEN
            nfa_state("class_match", 0, char_class_digit,
                      no_transition, no_transition)
        ELSE IF At(pat, st.pos) = Ch.D THEN
            nfa_state("class_match", 0, char_class_flip(char_class_digit),
                      no_transition, no_transition)
        ELSE IF At(pat, st.pos) = Ch.w THEN
            nfa_state("class_match", 0, char_class_word,
                      no_transition, no_transition)
        ELSE IF At(pat, st.pos) = Ch.W THEN
            nfa_state("class_match", 0, char_class_flip(char_class_word),
                      no_transition, no_transition)
        ELSE IF At(pat, st.pos) = Ch.s THEN
            nfa_state("class_match", 0, char_class_space,
                      no_transition, no_transition)
        ELSE IF At(pat, st.pos) = Ch.S THEN
            nfa_state("class_match", 0, char_class_flip(char_class_space),
                      no_transition, no_transition)
        ELSE
            nfa_state("char_match", At(pat, st.pos), {},
                      no_transition, no_transition))

\* the while loop of parse_char_class: the cursor and the class at its exit
RECURSIVE parse_char_class_loop(_, _, _)
parse_char_class_loop(pat, pos, cc) ==
    IF pos < Len(pat) /\ At(pat, pos) # Ch.rbracket THEN
        IF At(pat, pos) = Ch.backslash /\ pos + 1 < Len(pat) THEN
            parse_char_class_loop(pat, pos + 2,
                add_escape_to_class(cc, At(pat, pos + 1)))
        ELSE IF /\ pos + 2 < Len(pat)
                /\ At(pat, pos + 1) = Ch.minus
                /\ At(pat, pos + 2) # Ch.rbracket THEN
            parse_char_class_loop(pat, pos + 3,
                char_class_set_range(cc, At(pat, pos),
                                     At(pat, pos + 2)))
        ELSE
            parse_char_class_loop(pat, pos + 1,
                char_class_set(cc, At(pat, pos)))
    ELSE [pos |-> pos, cc |-> cc]

\* parse_char_class from the end of its loop on
parse_char_class_close(pat, st, negated, items) ==
    IF items.pos >= Len(pat) THEN throw(st, "Unclosed character class")
    ELSE push_fragment(st, items.pos + 1,
        nfa_state("class_match", 0,
                  IF negated THEN char_class_flip(items.cc) ELSE items.cc,
                  no_transition, no_transition))

parse_char_class(pat, st) ==
    IF st.pos + 1 < Len(pat) /\ At(pat, st.pos + 1) = Ch.caret
    THEN parse_char_class_close(pat, st, TRUE,
             parse_char_class_loop(pat, st.pos + 2, {}))
    ELSE parse_char_class_close(pat, st, FALSE,
             parse_char_class_loop(pat, st.pos + 1, {}))

RECURSIVE parse_regex(_, _)

\* parse_atom after the group's inner regex: the closing parenthesis
parse_atom_close(pat, inner) ==
    IF inner.err # "" THEN inner
    ELSE IF inner.pos >= Len(pat) \/ At(pat, inner.pos) # Ch.rparen
    THEN throw(inner, "Unmatched parenthesis")
    ELSE [inner EXCEPT !.pos = @ + 1]

\* variant of parse_atom that takes '^' and '$' for literal bytes
parse_atom_anchor_literal(pat, st) ==
    IF st.pos >= Len(pat) THEN throw(st, "Unexpected end of pattern")
    ELSE IF At(pat, st.pos) = Ch.lparen THEN
        parse_atom_close(pat,
            parse_regex(pat, [st EXCEPT !.pos = @ + 1]))
    ELSE IF At(pat, st.pos) = Ch.lbracket THEN
        parse_char_class(pat, st)
    ELSE IF At(pat, st.pos) = Ch.dot THEN
        push_fragment(st, st.pos + 1,
            nfa_state("class_match", 0, char_class_any_char,
                      no_transition, no_transition))
    ELSE IF At(pat, st.pos) = Ch.backslash THEN
        parse_escape(pat, [st EXCEPT !.pos = @ + 1])
    ELSE
        push_fragment(st, st.pos + 1,
            nfa_state("char_match", At(pat, st.pos), {},
                      no_transition, no_transition))

parse_atom(pat, st) ==
    IF st.pos >= Len(pat) THEN throw(st, "Unexpected end of pattern")
    ELSE IF At(pat, st.pos) = Ch.lparen THEN
        parse_atom_close(pat,
            parse_regex(pat, [st EXCEPT !.pos = @ + 1]))
    ELSE IF At(pat, st.pos) = Ch.lbracket THEN
        parse_char_class(pat, st)
    ELSE IF At(pat, st.pos) = Ch.dot THEN
        push_fragment(st, st.pos + 1,
            nfa_state("class_match", 0, char_class_any_char,
                      no_transition, no_transition))
    ELSE IF At(pat, st.pos) = Ch.backslash THEN
        parse_escape(pat, [st EXCEPT !.pos = @ + 1])
    ELSE IF At(pat, st.pos) \in {Ch.caret, Ch.dollar} THEN
        push_fragment(st, st.pos + 1,
            nfa_state("epsilon", 0, {}, no_transition, no_transition))
    ELSE
        push_fragment(st, st.pos + 1,
            nfa_state("char_match", At(pat, st.pos), {},
                      no_transition, no_transition))

\* parse_quantified after its atom
parse_quantifier(pat, base) ==
    IF base.err # "" THEN base
    ELSE IF base.pos >= Len(pat) THEN base
    ELSE IF At(pat, base.pos) = Ch.star
    THEN make_star([base EXCEPT !.pos = @ + 1])
    ELSE IF At(pat, base.pos) = Ch.plus
    THEN make_plus([base EXCEPT !.pos = @ + 1])
    ELSE IF At(pat, base.pos) = Ch.question
    THEN make_optional([base EXCEPT !.pos = @ + 1])
    ELSE base

parse_quantified(pat, st) ==
    parse_quantifier(pat, parse_atom(pat, st))

\* the body of parse_concatenation's loop after parse_quantified
concatenation_step(result, atom, first) ==
    IF atom.err # "" THEN atom
    ELSE IF first THEN atom
    ELSE [atom EXCEPT !.nfa = patch(atom.nfa, result.end, atom.start),
                      !.start = result.start]

\* the loop of parse_concatenation; result carries the fragment so far
RECURSIVE parse_concatenation_loop(_, _, _)
parse_concatenation_loop(pat, result, first) ==
    IF result.err # "" THEN result
    ELSE IF /\ result.pos < Len(pat)
            /\ At(pat, result.pos) # Ch.bar
            /\ At(pat, result.pos) # Ch.rparen THEN
        parse_concatenation_loop(pat,
            concatenation_step(result, parse_quantified(pat, result),
                               first),
            FALSE)
    ELSE IF first THEN
        push_fragment(result, result.pos,
            nfa_state("epsilon", 0, {}, no_transition, no_transition))
    ELSE result

parse_concatenation(pat, st) ==
    parse_concatenation_loop(pat, st, TRUE)

\* the body of parse_alternation's loop after the right operand
alternation_step(left, right) ==
    IF right.err # "" THEN right
    ELSE [right EXCEPT
        !.nfa = patch(patch(Append(Append(right.nfa,
                                nfa_state("epsilon", 0, {}, left.start,
                                          right.start)),
                                nfa_state("epsilon", 0, {}, no_transition,
                                          no_transition)),
                            left.end, Len(right.nfa) + 1),
                      right.end, Len(right.nfa) + 1),
        !.start = Len(right.nfa),
        !.end = Len(right.nfa) + 1]

RECURSIVE parse_alternation_loop(_, _)
parse_alternation_loop(pat, left) ==
    IF left.err # "" THEN left
    ELSE IF left.pos < Len(pat) /\ At(pat, left.pos) = Ch.bar THEN
        parse_alternation_loop(pat,
            alternation_step(left,
                parse_concatenation(pat, [left EXCEPT !.pos = @ + 1])))
    ELSE left

parse_alternation(pat, st) ==
    parse_alternation_loop(pat, parse_concatenation(pat, st))

parse_regex(pat, st) == parse_alternation(pat, st)

\* build_nfa after parse_regex: the accept state
build_nfa_accept(frag) ==
    IF frag.err # "" THEN
        [nfa_states_ |-> frag.nfa, nfa_start_ |-> 0, err |-> frag.err]
    ELSE
        [nfa_states_ |->
            patch(Append(frag.nfa,
                         nfa_state("accept", 0, {}, no_transition,
                                   no_transition)),
                  frag.end, Len(frag.nfa)),
         nfa_start_ |-> frag.start,
         err |-> ""]

build_nfa(pat) ==
    build_nfa_accept(parse_regex(pat, parsed(<<>>, 0, "", 0, 0)))

-----------------------------------------------------------------------------
(* dfa.hpp: subset construction.  state_map sends the key of a set of NFA   *)
(* states to its DFA state, and worklist[i] is the set of DFA state i.     *)

\* size_type(-1) in a transition row: the dead state
dead_state == -1

dfa_state(is_accept) ==
    [transitions |-> [c \in 0..(ascii_size - 1) |-> dead_state],
     is_accept |-> is_accept]

\* std::unordered_set<size_type>.  The order in which it is iterated is
\* unspecified; it follows from the insertions.  A set is the sequence v of
\* its elements in iteration order together with its bucket count n, and
\* `seed` names the hash table of the build: "libstdc++" is the table of
\* GNU libstdc++ (a singly linked list of nodes, a node linked at the head
\* of its bucket, or at the head of the list if the bucket is empty),
\* "insertion" a table that iterates in insertion order, "sorted" one that
\* iterates in increasing order.
unordered_set(v, n) == [v |-> v, n |-> n]

\* a default-constructed set: one bucket, no element
empty_set == unordered_set(<<>>, 1)

\* the elements of the set
elements(s) == {s.v[i] : i \in 1..Len(s.v)}

\* one insertion of std::sort seen as an insertion sort
sort_insert(sorted, x) ==
    SelectSeq(sorted, LAMBDA y : y <= x) \o <<x>>
        \o SelectSeq(sorted, LAMBDA y : ~(y <= x))

\* the node of x linked into the list v of a table of n buckets
link(v, x, n, seed) ==
    CASE seed = "libstdc++" ->
            IF \E i \in 1..Len(v) : v[i] % n = x % n
            THEN Let(SetMin({i \in 1..Len(v) : v[i] % n = x % n}), LAMBDA i :
                     SubSeq(v, 1, i - 1) \o <<x>> \o SubSeq(v, i, Len(v)))
            ELSE <<x>> \o v
      [] seed = "insertion" -> Append(v, x)
      [] OTHER -> sort_insert(v, x)

\* the nodes lo .. hi - 1 of the list v linked, in list order, into the
\* list `done` of a table of n buckets
RECURSIVE rehash_nodes(_, _, _, _, _, _)
rehash_nodes(v, lo, hi, done, n, seed) ==
    IF hi <= lo THEN done
    ELSE IF hi = lo + 1 THEN link(done, v[lo], n, seed)
    ELSE Let(rehash_nodes(v, lo, (lo + hi) \div 2, done, n, seed),
             LAMBDA half :
             IF Len(half) >= 0
             THEN rehash_nodes(v, (lo + hi) \div 2, hi, half, n, seed)
             ELSE half)

\* the nodes of the list v linked anew, in list order, into n buckets
rehash(v, done, n, seed) == rehash_nodes(v, 1, Len(v) + 1, done, n, seed)

\* the bucket counts a table grows through one insertion at a time: the
\* primes _M_next_bkt gives for 12 and then for twice the count before.
\* The list ends at the last such prime below 2^31; the next one,
\* 3504151727, is the count of a table of more than 1725587117 elements.
bucket_primes ==
    <<13, 29, 59, 127, 257, 541, 1109, 2357, 5087, 10273, 20753, 42043,
      85229, 172933, 351061, 712697, 1447153, 2938679, 5967347, 12117689,
      24607243, 49969847, 101473717, 206062531, 418451333, 849749479,
      1725587117>>

\* the bucket count a table of n buckets grows to: 13 at the first
\* insertion, then the first prime of the list not below twice n.  It is
\* defined for n < 1725587117, the tables of fewer than 1725587117
\* elements.
next_bkt(n) ==
    bucket_primes[SetMin({k \in 1..Len(bucket_primes) :
                             bucket_primes[k] > n})]

\* the table grows when the new element would bring the load above 1
need_rehash(s) == Len(s.v) + 1 > (IF s.n = 1 THEN 0 ELSE s.n)

\* s.insert(x)
insert(s, x, seed) ==
    IF x \in elements(s) THEN s
    ELSE IF need_rehash(s)
    THEN unordered_set(
             link(rehash(s.v, <<>>, next_bkt(s.n), seed), x, next_bkt(s.n),
                  seed),
             next_bkt(s.n))
    ELSE unordered_set(link(s.v, x, s.n, seed), s.n)

\* variant of the pop that follows next1 alone
epsilon_successors_next1_only(nfa, s) ==
    IF s >= Len(nfa) THEN <<>>
    ELSE IF At(nfa, s).kind = "epsilon"
    THEN SelectSeq(<<At(nfa, s).next1>>, LAMBDA t : t # no_transition)
    ELSE <<>>

\* the states one pop of epsilon_closure's stack tries to insert: next1,
\* then next2
epsilon_successors(nfa, s) ==
    IF s >= Len(nfa) THEN <<>>
    ELSE IF At(nfa, s).kind = "epsilon"
    THEN SelectSeq(<<At(nfa, s).next1, At(nfa, s).next2>>,
                   LAMBDA t : t # no_transition)
    ELSE <<>>

\* if (states.insert(t).second) stack.push_back(t); for the states in ts;
\* cl = [states, stack]
RECURSIVE epsilon_closure_push(_, _, _)
epsilon_closure_push(cl, ts, seed) ==
    IF ts = <<>> THEN cl
    ELSE epsilon_closure_push(
             IF Head(ts) \in elements(cl.states) THEN cl
             ELSE [states |-> insert(cl.states, Head(ts), seed),
                   stack |-> Append(cl.stack, Head(ts))],
             Tail(ts), seed)

\* while (!stack.empty()) { s = stack.back(); stack.pop_back(); ... }
RECURSIVE epsilon_closure_loop(_, _, _)
epsilon_closure_loop(nfa, cl, seed) ==
    IF cl.stack = <<>> THEN cl.states
    ELSE Let(epsilon_closure_push(
                 [states |-> cl.states,
                  stack |-> SubSeq(cl.stack, 1, Len(cl.stack) - 1)],
                 epsilon_successors(nfa, cl.stack[Len(cl.stack)]), seed),
             LAMBDA next : epsilon_closure_loop(nfa, next, seed))

\* epsilon_closure(states): the stack starts as the set is iterated
epsilon_closure(nfa, states, seed) ==
    epsilon_closure_loop(nfa, [states |-> states, stack |-> states.v], seed)

\* the test build_dfa makes of one NFA state against the byte c
nfa_state_matches(state, c) ==
    IF state.kind = "char_match" THEN state.match_char = c
    ELSE IF state.kind = "class_match"
    THEN char_class_test(state.match_class, c)
    ELSE FALSE

\* the elements of the set as an iteration visits them
iteration(set) == set.v

\* the states of current, in the order of `for (auto s : current)`, that
\* pass the tests of the loop body: next_set.insert(state.next1) is made
\* for these
dfa_moved_states(nfa, current, c) ==
    SelectSeq(iteration(current),
              LAMBDA s : /\ s < Len(nfa)
                         /\ nfa_state_matches(At(nfa, s), c)
                         /\ has_next1(At(nfa, s)))

\* for (auto s : current) { ... next_set.insert(state.next1); } from the
\* i-th of the states `moved` on
RECURSIVE dfa_next_set_loop(_, _, _, _, _)
dfa_next_set_loop(nfa, moved, i, next_set, seed) ==
    IF i > Len(moved) THEN next_set
    ELSE dfa_next_set_loop(nfa, moved, i + 1,
             insert(next_set, At(nfa, moved[i]).next1, seed), seed)

\* next_set of build_dfa before its closure
dfa_next_set(nfa, current, c, seed) ==
    dfa_next_set_loop(nfa, dfa_moved_states(nfa, current, c), 1, empty_set,
                      seed)

\* the accept check of build_dfa on a set of NFA states
dfa_is_accept(nfa, set) ==
    \E s \in elements(set) : s < Len(nfa) /\ At(nfa, s).kind = "accept"

\* std::sort(v.begin(), v.end())
RECURSIVE sort(_)
sort(v) ==
    IF v = <<>> THEN <<>>
    ELSE sort_insert(sort(SubSeq(v, 1, Len(v) - 1)), v[Len(v)])

\* variant of set_to_key that leaves the vector as iterated
set_to_key_unsorted(set) == iteration(set)

\* set_to_key: the key lists the sorted elements ("1,2,3,"), so two keys
\* are equal exactly when the sorted vectors are
set_to_key(set) == sort(iteration(set))

\* std::unordered_map<std::string, size_type>.  Its order is never read:
\* it is the function from the hash values of its keys to its buckets, and
\* a bucket the function from its keys to their values.
unordered_map == <<>>

\* a hash of a key: the sum of the states it lists
RECURSIVE key_hash(_)
key_hash(key) ==
    IF key = <<>> THEN 0 ELSE Head(key) + key_hash(Tail(key))

\* state_map.find(key) != state_map.end()
state_map_find(state_map, key) ==
    /\ key_hash(key) \in DOMAIN state_map
    /\ key \in DOMAIN state_map[key_hash(key)]

\* state_map[key] = value
state_map_assign(state_map, key, value) ==
    IF key_hash(key) \in DOMAIN state_map
    THEN [state_map EXCEPT ![key_hash(key)] = (key :> value) @@ @]
    ELSE state_map @@ (key_hash(key) :> (key :> value))

\* the value of state_map.find(key)->second
state_map_second(state_map, key) == state_map[key_hash(key)][key]

\* state_map[key] read with operator[]: a missing key is inserted with 0
state_map_at(state_map, key) ==
    IF state_map_find(state_map, key) THEN state_map
    ELSE state_map_assign(state_map, key, 0)

\* variant of the inner loop body that numbers a new state one too high
dfa_transition_off_by_one(nfa, d, current_dfa, c, next_set, key) ==
    IF ~state_map_find(d.state_map, key) THEN
        [d EXCEPT
            !.states =
                [Append(d.states, dfa_state(dfa_is_accept(nfa, next_set)))
                    EXCEPT ![current_dfa + 1].transitions[c] =
                               Len(d.states) + 1],
            !.state_map = state_map_assign(@, key, Len(d.states)),
            !.worklist = Append(d.worklist, next_set)]
    ELSE [d EXCEPT
            !.states[current_dfa + 1].transitions[c] =
                state_map_second(d.state_map, key)]

\* build_dfa's inner loop body from state_map.find on
dfa_transition(nfa, d, current_dfa, c, next_set, key) ==
    IF ~state_map_find(d.state_map, key) THEN
        [d EXCEPT
            !.states =
                [Append(d.states, dfa_state(dfa_is_accept(nfa, next_set)))
                    EXCEPT ![current_dfa + 1].transitions[c] = Len(d.states)],
            !.state_map = state_map_assign(@, key, Len(d.states)),
            !.worklist = Append(d.worklist, next_set)]
    ELSE [d EXCEPT
            !.states[current_dfa + 1].transitions[c] =
                state_map_second(d.state_map, key)]

\* build_dfa's inner loop body from the closure of next_set on
dfa_closed(nfa, d, current_dfa, c, next_set, seed) ==
    dfa_transition(nfa, d, current_dfa, c, next_set, set_to_key(next_set))

\* build_dfa's inner loop body from the emptiness test of next_set on
dfa_moved(nfa, d, current_dfa, c, next_set, seed) ==
    IF next_set.v = <<>> THEN d
    ELSE dfa_closed(nfa, d, current_dfa, c,
                    epsilon_closure(nfa, next_set, seed), seed)

\* one iteration of build_dfa's inner loop
dfa_char_step(nfa, d, current, current_dfa, c, seed) ==
    dfa_moved(nfa, d, current_dfa, c, dfa_next_set(nfa, current, c, seed),
              seed)

\* build_dfa's inner loop for the bytes bytes[lo] .. bytes[hi - 1]; no
\* exception leaves it, so d.err is "" throughout
RECURSIVE dfa_char_loop(_, _, _, _, _, _, _, _)
dfa_char_loop(nfa, d, current, current_dfa, bytes, lo, hi, seed) ==
    IF hi <= lo \/ d.err # "" THEN d
    ELSE IF hi = lo + 1
    THEN dfa_char_step(nfa, d, current, current_dfa, bytes[lo], seed)
    ELSE dfa_char_loop(nfa,
             dfa_char_loop(nfa, d, current, current_dfa, bytes, lo,
                           (lo + hi) \div 2, seed),
             current, current_dfa, bytes, (lo + hi) \div 2, hi, seed)

\* the bytes 0 .. ascii_size - 1 at which the inner loop does not
\* `continue`: next_set, which depends on current alone, is not empty, as
\* an insertion was made
dfa_live_bytes(nfa, current) ==
    SelectSeq([i \in 1..ascii_size |-> i - 1],
              LAMBDA c : dfa_moved_states(nfa, current, c) # <<>>)

\* the body of the worklist loop after the state limit check: `key` is
\* set_to_key(current) and bytes the bytes the inner loop does not skip
dfa_worklist_step(nfa, d, current, seed, key, bytes) ==
    dfa_char_loop(nfa,
        [d EXCEPT !.state_map = state_map_at(@, key)],
        current,
        state_map_second(state_map_at(d.state_map, key), key),
        bytes, 1, Len(bytes) + 1, seed)

\* the body of the worklist loop; cap is config::max_dfa_states
dfa_worklist_iteration(nfa, d, processed, cap, seed) ==
    IF Len(d.states) > cap THEN
        [d EXCEPT !.err = "DFA state limit exceeded - pattern too complex"]
    ELSE
        dfa_worklist_step(nfa, d, d.worklist[processed + 1], seed,
            set_to_key(d.worklist[processed + 1]),
            dfa_live_bytes(nfa, d.worklist[processed + 1]))

\* while (processed < worklist.size()) { ... } for processed = lo .. hi - 1,
\* left by the exception.  With mid = (lo + hi) \div 2 the iterations are
\* made in the four ranges lo .. (lo + mid) \div 2 - 1, .. mid - 1,
\* .. (mid + hi) \div 2 - 1, .. hi - 1: the ranges follow one another and
\* cover lo .. hi - 1, so every iteration is made once, in order, and no
\* other.
RECURSIVE dfa_worklist_run(_, _, _, _, _, _)
dfa_worklist_run(nfa, d, lo, hi, cap, seed) ==
    IF hi <= lo \/ d.err # "" \/ Len(d.worklist) <= lo THEN d
    ELSE IF hi = lo + 1 THEN dfa_worklist_iteration(nfa, d, lo, cap, seed)
    ELSE dfa_worklist_run(nfa,
             dfa_worklist_run(nfa,
                 dfa_worklist_run(nfa,
                     dfa_worklist_run(nfa, d,
                         lo, (lo + (lo + hi) \div 2) \div 2, cap, seed),
                     (lo + (lo + hi) \div 2) \div 2,
                     (lo + hi) \div 2, cap, seed),
                 (lo + hi) \div 2,
                 ((lo + hi) \div 2 + hi) \div 2, cap, seed),
             ((lo + hi) \div 2 + hi) \div 2, hi, cap, seed)

\* variant of the worklist loop that ends at the state limit without an
\* exception
dfa_worklist_loop_no_throw(nfa, d, processed, cap, seed) ==
    [dfa_worklist_run(nfa, d, processed, cap + 1, cap, seed) EXCEPT !.err = ""]

\* build_dfa's worklist loop.  The worklist is as long as the table, so an
\* iteration past the cap-th finds the table above the limit and throws:
\* the loop makes cap + 1 iterations at most.
dfa_worklist_loop(nfa, d, processed, cap, seed) ==
    dfa_worklist_run(nfa, d, processed, cap + 1, cap, seed)

\* build_dfa from the closure of the start set on
build_dfa_from(nfa, start_set, cap, seed) ==
    dfa_worklist_loop(nfa,
        [states |-> <<dfa_state(dfa_is_accept(nfa, start_set))>>,
         state_map |-> state_map_assign(unordered_map, set_to_key(start_set), 0),
         worklist |-> <<start_set>>,
         err |-> ""],
        0, cap, seed)

\* build_dfa in a build whose config::max_dfa_states is cap
build_dfa_capped(nfa, start, cap, seed) ==
    IF nfa = <<>>
    THEN [states |-> <<>>, state_map |-> unordered_map, worklist |-> <<>>,
          err |-> ""]
    ELSE build_dfa_from(nfa,
             epsilon_closure(nfa, insert(empty_set, start, seed), seed),
             cap, seed)

build_dfa(nfa, start, seed) ==
    build_dfa_capped(nfa, start, max_dfa_states, seed)

\* The compiled_dfa a compile leaves, and the exception it throws ("" if
\* none).  An exception leaves the constructor, so no object is made.
compiled(nfa, start, states, err) ==
    IF err # ""
    THEN [nfa_states_ |-> <<>>, nfa_start_ |-> 0, states_ |-> <<>>,
          error |-> err]
    ELSE [nfa_states_ |-> nfa, nfa_start_ |-> start, states_ |-> states,
          error |-> ""]

\* compile after build_dfa
compile_dfa(n, d) == compiled(n.nfa_states_, n.nfa_start_, d.states, d.err)

\* compile after build_nfa
compile_nfa(n, seed) ==
    IF n.err # "" THEN compiled(n.nfa_states_, n.nfa_start_, <<>>, n.err)
    ELSE compile_dfa(n, build_dfa(n.nfa_states_, n.nfa_start_, seed))

\* compile in a build whose hash table is `seed`
compile(pat, seed) == compile_nfa(build_nfa(pat), seed)

-----------------------------------------------------------------------------
(* dfa.hpp: the matcher *)

RECURSIVE matches_loop(_, _, _, _)
matches_loop(states, T, i, state) ==
    IF i >= Len(T) THEN At(states, state).is_accept
    ELSE IF At(T, i) >= ascii_size THEN FALSE
    ELSE IF At(states, state).transitions[At(T, i)] = dead_state THEN FALSE
    ELSE matches_loop(states, T, i + 1,
                      At(states, state).transitions[At(T, i)])

compiled_dfa_matches(states, T) ==
    IF states = <<>> THEN FALSE ELSE matches_loop(states, T, 0, 0)

\* the inner loop of search from text index i in `state`: TRUE if it
\* returns start, FALSE if it breaks or runs off the text
RECURSIVE search_inner_loop(_, _, _, _)
search_inner_loop(states, T, i, state) ==
    IF i >= Len(T) THEN FALSE
    ELSE IF At(T, i) >= ascii_size THEN FALSE
    ELSE IF At(states, state).transitions[At(T, i)] = dead_state THEN FALSE
    ELSE IF At(states, At(states, state).transitions[At(T, i)]).is_accept
    THEN TRUE
    ELSE search_inner_loop(states, T, i + 1,
                           At(states, state).transitions[At(T, i)])

RECURSIVE search_loop(_, _, _)
\* variant of the outer loop in which a non-ASCII byte at the start offset
\* ends the whole search
search_loop_stop_at_non_ascii(states, T, start) ==
    IF start < Len(T) THEN
        IF At(T, start) >= ascii_size THEN None
        ELSE IF search_inner_loop(states, T, start, 0) THEN start
        ELSE IF At(states, 0).is_accept THEN start
        ELSE search_loop(states, T, start + 1)
    ELSE None

\* the outer loop of search
search_loop(states, T, start) ==
    IF start < Len(T) THEN
        IF search_inner_loop(states, T, start, 0) THEN start
        ELSE IF At(states, 0).is_accept THEN start
        ELSE search_loop(states, T, start + 1)
    ELSE None

compiled_dfa_search(states, T) ==
    IF states = <<>> THEN None ELSE search_loop(states, T, 0)

-----------------------------------------------------------------------------
(* State machine of the literal API.  The arguments of the call and the    *)
(* machine are drawn in Init; a run probes the CPU features any number of   *)
(* times and makes one call.  The calls read no state but `cached`, so      *)
(* further calls would reach no other states.                               *)

\* the regex syntax tree of the empty source
EmptyTree == [op |-> "cat", c |-> 0, kids |-> <<>>]

RegexInit ==
    /\ source = <<>>
    /\ tree = EmptyTree
    /\ nfa_states_ = <<>>
    /\ nfa_start_ = 0
    /\ states_ = <<>>
    /\ error = ""

\* no thread has been started
NoThreads == threads = <<>> /\ frames = <<>>

RegexUnchanged ==
    UNCHANGED <<source, tree, nfa_states_, nfa_start_, states_, error,
                threads, frames>>

ApiInputs ==
    (ShortTexts \X ShortPatterns) \cup (LongTexts \X Patterns)

Init ==
    /\ \E in \in ApiInputs : text = in[1] /\ pattern = in[2]
    /\ \E pf \in Platforms : machine = pf[1] /\ build = pf[2]
    /\ generator = NoGenerator
    /\ cached = Unset
    /\ NoThreads
    /\ RegexInit
    /\ op = "init"
    /\ ret = None
    /\ cmps = 0

\* no call has been made yet
NoCallYet == op \in {"init", "get_features"}

\* search reaches a has_*() of the runtime dispatch, and so get_features,
\* only here: in a build without engines no has_*() call is compiled
reaches_dispatch(T, P, b) ==
    /\ Len(P) # 0
    /\ Len(T) >= Len(P)
    /\ Len(T) >= simd_threshold
    /\ (KMP_HAS_AVX512(b) \/ KMP_HAS_AVX2(b) \/ KMP_HAS_SSE42(b))

GetFeatures ==
    /\ cached' = get_features(cached, machine)
    /\ op' = "get_features"
    /\ ret' = cached'
    /\ cmps' = 0
    /\ UNCHANGED <<text, pattern, machine, build, generator>>
    /\ RegexUnchanged

SearchPos ==
    /\ NoCallYet
    /\ \E r \in {search_pos(text, pattern, get_features(cached, machine),
                            build)} :
          /\ ret' = r.pos
          /\ cmps' = r.cmps
    /\ cached' = IF reaches_dispatch(text, pattern, build)
                 THEN get_features(cached, machine) ELSE cached
    /\ op' = "search_pos"
    /\ UNCHANGED <<text, pattern, machine, build, generator>>
    /\ RegexUnchanged

Contains ==
    /\ NoCallYet
    /\ ret' = contains(text, pattern, get_features(cached, machine), build)
    /\ cached' = IF reaches_dispatch(text, pattern, build)
                 THEN get_features(cached, machine) ELSE cached
    /\ op' = "contains"
    /\ cmps' = 0
    /\ UNCHANGED <<text, pattern, machine, build, generator>>
    /\ RegexUnchanged

\* search(first, last, pattern_first, pattern_last) on iterators that are
\* contiguous (pointers, string iterators) or not (list iterators)
SearchIterators(name, contiguous) ==
    /\ NoCallYet
    /\ \E r \in {search(text, pattern, contiguous,
                        get_features(cached, machine), build)} :
          /\ ret' = r.it
          /\ cmps' = r.cmps
    /\ cached' = IF contiguous /\ reaches_dispatch(text, pattern, build)
                 THEN get_features(cached, machine) ELSE cached
    /\ op' = name
    /\ UNCHANGED <<text, pattern, machine, build, generator>>
    /\ RegexUnchanged

SearchContiguous == SearchIterators("search_contiguous", TRUE)

SearchForward == SearchIterators("search_forward", FALSE)

SearchAllVec ==
    /\ NoCallYet
    /\ op' = "search_all_vec"
    /\ ret' = search_all_vec(text, pattern)
    /\ cmps' = 0
    /\ UNCHANGED <<text, pattern, machine, build, generator, cached>>
    /\ RegexUnchanged

Count ==
    /\ NoCallYet
    /\ op' = "count"
    /\ ret' = count(text, pattern)
    /\ cmps' = 0
    /\ UNCHANGED <<text, pattern, machine, build, generator, cached>>
    /\ RegexUnchanged

Next ==
    \/ GetFeatures \/ SearchPos \/ Contains \/ SearchAllVec \/ Count
    \/ SearchContiguous \/ SearchForward

Spec == Init /\ [][Next]_vars

-----------------------------------------------------------------------------
(* State machine of the kernels: the failure-table builders and the four   *)
(* engines, called directly on a text, a pattern and its failure table.    *)
(* A run makes one call.                                                    *)

KernelInputs ==
    (ShortTexts \X ShortPatterns) \cup (LongTexts \X Patterns)
    \cup ({<<>>} \X LongPatterns)

InitKernel ==
    /\ \E in \in KernelInputs : text = in[1] /\ pattern = in[2]
    /\ machine = Machine(0, {}, {}, {})
    /\ build = AllEngines
    /\ generator = NoGenerator
    /\ cached = Unset
    /\ NoThreads
    /\ RegexInit
    /\ op = "init"
    /\ ret = None
    /\ cmps = 0

KernelCall(name, value, n) ==
    /\ op = "init"
    /\ op' = name
    /\ ret' = value
    /\ cmps' = n
    /\ UNCHANGED <<text, pattern, machine, build, generator, cached>>
    /\ RegexUnchanged

ComputeFailure ==
    KernelCall("compute_failure", compute_failure(pattern), 0)

CompiledPattern ==
    KernelCall("compiled_pattern", compiled_pattern_compute_failure(pattern), 0)

KmpSearchScalar ==
    \E r \in {kmp_search_scalar(text, pattern, compute_failure(pattern))} :
        KernelCall("kmp_search_scalar", r.it, r.cmps)

KmpSearchSse42 ==
    \E r \in {kmp_search_sse42(text, pattern, compute_failure(pattern))} :
        KernelCall("kmp_search_sse42", r.ptr, r.cmps)

KmpSearchAvx2 ==
    \E r \in {kmp_search_avx2(text, pattern, compute_failure(pattern))} :
        KernelCall("kmp_search_avx2", r.ptr, r.cmps)

KmpSearchAvx512 ==
    \E r \in {kmp_search_avx512(text, pattern, compute_failure(pattern))} :
        KernelCall("kmp_search_avx512", r.ptr, r.cmps)

\* find_first_char_*(text, text_len, pattern[0])
FindFirstCharSse42 ==
    /\ pattern # <<>>
    /\ KernelCall("find_first_char_sse42",
           find_first_char_sse42(text, 0, Len(text), At(pattern, 0)), 0)

FindFirstCharAvx2 ==
    /\ pattern # <<>>
    /\ KernelCall("find_first_char_avx2",
           find_first_char_avx2(text, 0, Len(text), At(pattern, 0)), 0)

FindFirstCharAvx512 ==
    /\ pattern # <<>>
    /\ KernelCall("find_first_char_avx512",
           find_first_char_avx512(text, 0, Len(text), At(pattern, 0)), 0)

\* the length on which both buffers of a compare are readable
CompareLen == IF Len(text) < Len(pattern) THEN Len(text) ELSE Len(pattern)

\* compare_*(text, pattern, len)
CompareAvx2 ==
    \E r \in {compare_avx2(text, 0, pattern, CompareLen)} :
        KernelCall("compare_avx2", r.k, r.cmps)

CompareAvx512 ==
    \E r \in {compare_avx512(text, 0, pattern, CompareLen)} :
        KernelCall("compare_avx512", r.k, r.cmps)

\* auto gen = search_all(text, pattern);
SearchAll ==
    /\ op = "init"
    /\ generator' = search_all_call
    /\ op' = "search_all"
    /\ ret' = None
    /\ cmps' = 0
    /\ UNCHANGED <<text, pattern, machine, build, cached>>
    /\ RegexUnchanged

\* gen.begin() or ++it: the coroutine runs to its next suspension and the
\* caller reads the value it yielded
Resume ==
    /\ generator.pc \in {"initial", "co_yield"}
    /\ generator' = search_all_resume(text, pattern, generator)
    /\ op' = "resume"
    /\ ret' = IF generator'.pc = "co_yield" THEN yielded(generator')
              ELSE None
    /\ cmps' = 0
    /\ UNCHANGED <<text, pattern, machine, build, cached>>
    /\ RegexUnchanged

\* while the coroutine is suspended the caller overwrites one byte of the
\* buffer the text view refers to (at most once between two resumptions,
\* in short buffers)
WriteText ==
    /\ generator.pc \in {"initial", "co_yield"}
    /\ op \in {"search_all", "resume"}
    /\ Len(text) <= MaxTextLen
    /\ \E k \in 1..Len(text) : \E c \in Alphabet \ {text[k]} :
          text' = [text EXCEPT ![k] = c]
    /\ op' = "write_text"
    /\ UNCHANGED <<pattern, machine, build, generator, cached, ret, cmps>>
    /\ RegexUnchanged

NextKernel ==
    \/ ComputeFailure \/ CompiledPattern \/ KmpSearchScalar
    \/ KmpSearchSse42 \/ KmpSearchAvx2 \/ KmpSearchAvx512
    \/ FindFirstCharSse42 \/ FindFirstCharAvx2 \/ FindFirstCharAvx512
    \/ CompareAvx2 \/ CompareAvx512 \/ SearchAll \/ Resume \/ WriteText

SpecKernel == InitKernel /\ [][NextKernel]_vars

-----------------------------------------------------------------------------
(* State machine of the regex core.  The source is printed from a syntax   *)
(* tree drawn in Init; a run compiles it once and then calls matches or     *)
(* search on a text.  The compiled DFA is never written after compile, so   *)
(* further calls would reach no other states.                               *)

MaxRegexTextLen == 4    \* exhaustive texts over Alphabet

Node(o, c, kids) == [op |-> o, c |-> c, kids |-> kids]
Lit(c) == Node("lit", c, <<>>)
AnyChar == Node("any", 0, <<>>)
Esc(c) == Node("esc", c, <<>>)
Anchor(c) == Node("anchor", c, <<>>)
Group(t) == Node("group", 0, <<t>>)
Star(t) == Node("star", 0, <<t>>)
Plus(t) == Node("plus", 0, <<t>>)
Opt(t) == Node("opt", 0, <<t>>)
Cat(kids) == Node("cat", 0, kids)
Alt(kids) == Node("alt", 0, kids)
Class(items) == Node("class", 0, items)
NegClass(items) == Node("negclass", 0, items)
ItemChar(c) == Node("char", c, <<>>)
ItemRange(from, to) == Node("range", from, <<ItemChar(to)>>)
ItemEsc(c) == Node("escape", c, <<>>)

RECURSIVE Unparse(_)
RECURSIVE UnparseAll(_, _)
\* the sources of the trees in kids, joined by sep
UnparseAll(kids, sep) ==
    IF kids = <<>> THEN <<>>
    ELSE IF Len(kids) = 1 THEN Unparse(kids[1])
    ELSE Unparse(kids[1]) \o sep \o UnparseAll(Tail(kids), sep)

\* the regex source of a syntax tree
Unparse(t) ==
    CASE t.op = "lit" -> <<t.c>>
      [] t.op = "any" -> <<Ch.dot>>
      [] t.op = "esc" -> <<Ch.backslash, t.c>>
      [] t.op = "anchor" -> <<t.c>>
      [] t.op = "group" -> <<Ch.lparen>> \o Unparse(t.kids[1]) \o <<Ch.rparen>>
      [] t.op = "star" -> Unparse(t.kids[1]) \o <<Ch.star>>
      [] t.op = "plus" -> Unparse(t.kids[1]) \o <<Ch.plus>>
      [] t.op = "opt" -> Unparse(t.kids[1]) \o <<Ch.question>>
      [] t.op = "cat" -> UnparseAll(t.kids, <<>>)
      [] t.op = "alt" -> UnparseAll(t.kids, <<Ch.bar>>)
      [] t.op = "class" ->
            <<Ch.lbracket>> \o UnparseAll(t.kids, <<>>) \o <<Ch.rbracket>>
      [] t.op = "negclass" ->
            <<Ch.lbracket, Ch.caret>> \o UnparseAll(t.kids, <<>>)
                \o <<Ch.rbracket>>
      [] t.op = "char" -> <<t.c>>
      [] t.op = "range" -> <<t.c, Ch.minus, t.kids[1].c>>
      [] t.op = "escape" -> <<Ch.backslash, t.c>>

Quantify(S) ==
    S \cup {Star(t) : t \in S} \cup {Plus(t) : t \in S}
      \cup {Opt(t) : t \in S}

Literals == {Lit(c) : c \in Alphabet}
Terms == Quantify(Literals)

\* atoms that match one byte out of a set, and the anchors
ClassAtoms ==
    {AnyChar, Lit(200), Esc(Ch.d), Esc(Ch.D), Esc(Ch.w), Esc(Ch.W), Esc(Ch.s),
     Esc(Ch.S), Esc(Ch.dot), Esc(Ch.star), Anchor(Ch.caret),
     Anchor(Ch.dollar),
     Class(<<ItemChar(97), ItemChar(98)>>),
     Class(<<ItemRange(97, 98), ItemChar(53)>>),
     Class(<<ItemChar(97), ItemChar(Ch.minus)>>),
     Class(<<ItemEsc(Ch.d), ItemChar(97)>>),
     Class(<<ItemEsc(Ch.w)>>),
     Class(<<ItemEsc(Ch.s)>>),
     Class(<<ItemEsc(Ch.D)>>),
     Class(<<ItemEsc(Ch.W)>>),
     Class(<<ItemEsc(Ch.S)>>),
     Class(<<ItemEsc(Ch.rbracket)>>),
     NegClass(<<ItemChar(97)>>),
     NegClass(<<ItemRange(48, 57)>>),
     NegClass(<<ItemEsc(Ch.W)>>)}

\* what a group holds
Inners ==
    {Alt(<<Lit(97), Lit(98)>>), Cat(<<Lit(97), Lit(98)>>), Cat(<<>>),
     Alt(<<Lit(97), Cat(<<>>)>>), Star(Lit(97)), Plus(Lit(97)),
     Opt(Lit(97))}

Groups == Quantify({Group(t) : t \in Inners})

Branches ==
    {Lit(97), Cat(<<Lit(97), Lit(98)>>), Star(Lit(98)), Cat(<<>>)}

\* concatenations with unquantified anchors, and the bare anchors
AnchorHosts == {<<x, y>> : x \in {Lit(97), Star(Lit(98))},
                           y \in {Lit(98), Plus(Lit(97))}}

AnchoredTrees ==
    {Anchor(Ch.caret), Anchor(Ch.dollar),
     Cat(<<Anchor(Ch.caret), Anchor(Ch.dollar)>>),
     Alt(<<Cat(<<Anchor(Ch.caret), Lit(97)>>),
           Cat(<<Lit(98), Anchor(Ch.dollar)>>)>>),
     Cat(<<Group(Cat(<<Anchor(Ch.caret), Lit(97)>>)), Lit(98)>>)}
    \cup {Cat(<<Anchor(Ch.caret)>> \o k) : k \in AnchorHosts}
    \cup {Cat(k \o <<Anchor(Ch.dollar)>>) : k \in AnchorHosts}
    \cup {Cat(<<Anchor(Ch.caret)>> \o k \o <<Anchor(Ch.dollar)>>) :
              k \in AnchorHosts}
    \cup {Cat(<<k[1], Anchor(Ch.dollar), k[2]>>) : k \in AnchorHosts}
    \cup {Cat(<<k[1], Anchor(Ch.caret), k[2]>>) : k \in AnchorHosts}

\* quantifiers, alternations, groups and anchors nested three deep
NestedTrees ==
    {Star(Group(Alt(<<Star(Lit(97)), Opt(Group(Plus(Lit(98))))>>))),
     Plus(Group(Cat(<<Anchor(Ch.caret),
                      Opt(Group(Alt(<<Lit(97), Cat(<<>>)>>)))>>))),
     Opt(Group(Star(Group(Plus(Group(Opt(Lit(97)))))))),
     Alt(<<Star(Group(Star(Anchor(Ch.dollar)))),
           Cat(<<Plus(Group(Cat(<<>>))), Lit(98)>>)>>)}

RegexTrees ==
    Terms \cup AnchoredTrees \cup NestedTrees \cup Quantify(ClassAtoms) \cup Groups
    \cup {Cat(<<x, y>>) : x \in Terms, y \in Terms}
    \cup {Cat(<<Lit(97), q, Lit(98)>>) : q \in Quantify({Lit(98)})}
    \cup {Cat(<<g, Lit(98)>>) : g \in Groups}
    \cup {Cat(<<Lit(97), g>>) : g \in Groups}
    \cup {Alt(<<x, y>>) : x \in Branches, y \in Branches}
    \cup {Alt(<<Lit(97), Lit(98), Cat(<<Lit(97), Lit(98)>>)>>),
          Cat(<<Star(AnyChar), Lit(98)>>),
          Cat(<<Plus(Esc(Ch.d)), Lit(97)>>)}

\* bytes outside Alphabet that the classes tell apart, and a non-ASCII byte
SpecialBytes == {Ch.newline, Ch.space, Ch.star, Ch.dot, 53, Ch.D,
                 Ch.underscore, Ch.minus, Ch.rbracket, 200}

RegexTexts ==
    Words(Alphabet, MaxRegexTextLen)
    \cup {<<x>> : x \in SpecialBytes}
    \cup {<<x, 97>> : x \in SpecialBytes}
    \cup {<<97, x>> : x \in SpecialBytes}

InitRegex ==
    /\ tree \in RegexTrees
    /\ source = Unparse(tree)
    /\ text = <<>>
    /\ pattern = <<>>
    /\ machine = Machine(0, {}, {}, {})
    /\ build = AllEngines
    /\ generator = NoGenerator
    /\ cached = Unset
    /\ NoThreads
    /\ nfa_states_ = <<>>
    /\ nfa_start_ = 0
    /\ states_ = <<>>
    /\ error = ""
    /\ op = "init"
    /\ ret = None
    /\ cmps = 0

\* the hash tables a build may have: each fixes the iteration orders of a run
HashSeeds == {"libstdc++", "insertion", "sorted"}

\* compile_regex(source): the regex_pattern constructor
CompileRegex ==
    /\ op = "init"
    /\ \E seed \in HashSeeds :
       \E r \in {compile(source, seed)} :
          /\ nfa_states_' = r.nfa_states_
          /\ nfa_start_' = r.nfa_start_
          /\ states_' = r.states_
          /\ error' = r.error
    /\ op' = "compile_regex"
    /\ ret' = None
    /\ UNCHANGED <<text, pattern, machine, build, generator,
                   cached, source, tree, cmps,
                   threads, frames>>

\* a call of a const member of the compiled regex on the text T
RegexCall(name, T, value) ==
    /\ op = "compile_regex"
    /\ error = ""
    /\ text' = T
    /\ op' = name
    /\ ret' = value
    /\ UNCHANGED <<pattern, machine, build, generator,
                   cached, source, tree, nfa_states_,
                   nfa_start_, states_, error, cmps, threads, frames>>

RegexMatches ==
    \E T \in RegexTexts : RegexCall("matches", T, compiled_dfa_matches(states_, T))

RegexSearch ==
    \E T \in RegexTexts : RegexCall("search", T, compiled_dfa_search(states_, T))

NextRegex == CompileRegex \/ RegexMatches \/ RegexSearch

SpecRegex == InitRegex /\ [][NextRegex]_vars

-----------------------------------------------------------------------------
(* State machine of the regex core on raw sources: every byte string over  *)
(* SourceBytes up to MaxPatLen bytes is compiled, well-formed or not; a     *)
(* source that compiles is then used as in SpecRegex.                       *)

SourceBytes ==
    {97, Ch.lparen, Ch.rparen, Ch.lbracket, Ch.rbracket, Ch.backslash}

RawSources == Words(SourceBytes, MaxPatLen)

\* the value of `tree` for a source that was not printed from a tree
RawTree == Node("raw", 0, <<>>)

InitSource ==
    /\ source \in RawSources
    /\ tree = RawTree
    /\ text = <<>>
    /\ pattern = <<>>
    /\ machine = Machine(0, {}, {}, {})
    /\ build = AllEngines
    /\ generator = NoGenerator
    /\ cached = Unset
    /\ NoThreads
    /\ nfa_states_ = <<>>
    /\ nfa_start_ = 0
    /\ states_ = <<>>
    /\ error = ""
    /\ op = "init"
    /\ ret = None
    /\ cmps = 0

SpecSource == InitSource /\ [][NextRegex]_vars

-----------------------------------------------------------------------------
(* State machine of the two steps of compile, build_nfa and build_dfa.      *)
(* After build_dfa states_ is the table as build_dfa left it, also when it  *)
(* threw: the table only grows, so this is the largest table build_dfa      *)
(* ever held.                                                               *)

WideDepth == 13    \* bytes after the 'a' of ExponentialTree

\* [ab]*a followed by k times [ab]: its DFA tells the last k + 1 bytes
\* apart and has 2^(k + 1) states
ExponentialTree(k) ==
    Cat(<<Star(Class(<<ItemChar(97), ItemChar(98)>>)), Lit(97)>>
        \o [i \in 1..k |-> Class(<<ItemChar(97), ItemChar(98)>>)])

\* regexes whose DFA has more states than those of RegexTrees, the last
\* one more than config::max_dfa_states
WideTrees ==
    {Alt(<<Cat(<<Lit(97), Lit(98)>>), Cat(<<Lit(98), Lit(97)>>)>>),
     Alt(<<Cat(<<Lit(97), Lit(97), Lit(97)>>),
           Cat(<<Lit(98), Lit(98), Lit(98)>>)>>),
     Cat(<<Lit(97), Lit(98), Lit(97), Lit(98), Lit(97)>>),
     Cat(<<Star(Group(Alt(<<Lit(97), Lit(98)>>))), Lit(97),
           Group(Alt(<<Lit(97), Lit(98)>>)),
           Group(Alt(<<Lit(97), Lit(98)>>))>>),
     ExponentialTree(WideDepth)}

InitBuild ==
    /\ tree \in RegexTrees \cup WideTrees
    /\ source = Unparse(tree)
    /\ text = <<>>
    /\ pattern = <<>>
    /\ machine = Machine(0, {}, {}, {})
    /\ build = AllEngines
    /\ generator = NoGenerator
    /\ cached = Unset
    /\ NoThreads
    /\ nfa_states_ = <<>>
    /\ nfa_start_ = 0
    /\ states_ = <<>>
    /\ error = ""
    /\ op = "init"
    /\ ret = None
    /\ cmps = 0

BuildNfa ==
    /\ op = "init"
    /\ \E n \in {build_nfa(source)} :
          /\ nfa_states_' = n.nfa_states_
          /\ nfa_start_' = n.nfa_start_
          /\ error' = n.err
    /\ op' = "build_nfa"
    /\ UNCHANGED <<text, pattern, machine, build, generator,
                   cached, source, tree, states_,
                   ret, cmps, threads, frames>>

BuildDfa ==
    /\ op = "build_nfa"
    /\ error = ""
    /\ \E seed \in HashSeeds :
       \E d \in {build_dfa(nfa_states_, nfa_start_, seed)} :
          /\ states_' = d.states
          /\ error' = d.err
    /\ op' = "build_dfa"
    /\ UNCHANGED <<text, pattern, machine, build, generator,
                   cached, source, tree,
                   nfa_states_, nfa_start_, ret, cmps, threads, frames>>

NextBuild == BuildNfa \/ BuildDfa

SpecBuild == InitBuild /\ [][NextBuild]_vars


-----------------------------------------------------------------------------
(* State machine of threads that share one compiled regex, one literal      *)
(* pattern and the process-wide static of get_features, and call the const  *)
(* members and the free functions on them without synchronisation.  A step  *)
(* of a thread is one iteration of a loop of the matcher, one passage of    *)
(* the guard of the static, or a call that touches no shared state but the  *)
(* pattern it reads.  The regex and the pattern are constructed before the  *)
(* threads start.                                                           *)

ThreadIds == {1, 2}

\* texts the threads hand to the regex
ThreadTexts == {<<>>, <<97, 98>>, <<98, 97>>, <<97, 200>>, <<97, 97, 98>>}

\* texts the threads hand to the literal search, below and above
\* simd_threshold
ThreadLongTexts ==
    {<<98, 97, 98>>, Rep(98, 31) \o <<97, 98>> \o Rep(98, 32)}

ThreadPatterns == {<<97, 98>>}

\* a machine without vector units, one with AVX2, one with AVX-512
ThreadMachines ==
    { Machine(1, {20}, {}, {}),
      Machine(7, {20, 27}, {0, 1, 2}, {5, 16, 30}),
      Machine(7, {20, 27}, {0, 1, 2, 5, 6, 7}, {5, 16, 30}) }

ThreadTrees ==
    { Cat(<<Lit(97), Lit(98)>>), Star(Lit(97)),
      Cat(<<Star(Lit(97)), Lit(98)>>), Alt(<<Lit(97), Plus(Lit(98))>>) }

\* the calls a thread makes
ThreadCalls ==
    ({"search", "matches"} \X ThreadTexts)
        \cup ({"search_pos"} \X ThreadLongTexts)
        \cup {<<"get_features", <<>>>>}

\* a thread that has made `detected` calls of detect_features
thread(call, T, pc, value, detected) ==
    [call |-> call, text |-> T, pc |-> pc, ret |-> value,
     detected |-> detected]

\* the automatic variables start, i, state and matched of search and matches
frame(start, i, state, matched) ==
    [start |-> start, i |-> i, state |-> state, matched |-> matched]

\* variant in which the calls of all threads keep their variables in one
\* place, as members of the shared object would be
frame_of_shared(t) == SetMin(ThreadIds)

\* the frame of the call thread t is in: automatic variables live on the
\* stack of the calling thread
frame_of(t) == t

\* a step of a thread: its record and its frame afterwards
stepped(th, fr) == [th |-> th, fr |-> fr]

\* return value from a call: the frame of the call is gone
returned(th, fr, value) ==
    stepped([th EXCEPT !.pc = "done", !.ret = value],
            frame(0, 0, 0, FALSE))

\* search: the test of the outer loop and the head of its body
search_outer(states, th, fr, start) ==
    IF start < Len(th.text)
    THEN stepped([th EXCEPT !.pc = "search_inner"],
                 frame(start, start, 0, At(states, 0).is_accept))
    ELSE returned(th, fr, None)

\* search: entry
search_entry(states, th, fr) ==
    IF states = <<>> THEN returned(th, fr, None)
    ELSE search_outer(states, th, fr, 0)

\* search: after the inner loop
search_after_inner(states, th, fr) ==
    IF fr.matched THEN returned(th, fr, fr.start)
    ELSE search_outer(states, th, fr, fr.start + 1)

\* search: the body of the inner loop from the transition on
search_inner_next(states, th, fr, next) ==
    IF next = dead_state THEN search_after_inner(states, th, fr)
    ELSE IF At(states, next).is_accept THEN returned(th, fr, fr.start)
    ELSE stepped(th, [fr EXCEPT !.state = next, !.i = fr.i + 1])

\* search: the test of the inner loop and one iteration
search_inner(states, th, fr) ==
    IF fr.i >= Len(th.text) THEN search_after_inner(states, th, fr)
    ELSE IF At(th.text, fr.i) >= ascii_size
    THEN search_after_inner(states, th, fr)
    ELSE search_inner_next(states, th, fr,
             At(states, fr.state).transitions[At(th.text, fr.i)])

\* matches: entry
matches_entry(states, th, fr) ==
    IF states = <<>> THEN returned(th, fr, FALSE)
    ELSE stepped([th EXCEPT !.pc = "matches_loop"], frame(0, 0, 0, FALSE))

\* matches: the body of the loop from the transition on
matches_next(states, th, fr, next) ==
    IF next = dead_state THEN returned(th, fr, FALSE)
    ELSE stepped(th, [fr EXCEPT !.state = next, !.i = fr.i + 1])

\* matches: the test of the loop and one iteration
matches_iteration(states, th, fr) ==
    IF fr.i >= Len(th.text)
    THEN returned(th, fr, At(states, fr.state).is_accept)
    ELSE IF At(th.text, fr.i) >= ascii_size THEN returned(th, fr, FALSE)
    ELSE matches_next(states, th, fr,
             At(states, fr.state).transitions[At(th.text, fr.i)])

\* one step of a thread inside search or matches of the compiled regex
regex_step(states, th, fr) ==
    CASE th.pc = "search" -> search_entry(states, th, fr)
      [] th.pc = "search_inner" -> search_inner(states, th, fr)
      [] th.pc = "matches" -> matches_entry(states, th, fr)
      [] th.pc = "matches_loop" -> matches_iteration(states, th, fr)

RegexPcs == {"search", "search_inner", "matches", "matches_loop"}

\* variant of the guard that lets every thread through
initializing_never(ths) == FALSE

\* The guard of the function-local static `cached`: while one thread runs
\* its initializer, the others wait at the declaration.
initializing(ths) == \E t \in DOMAIN ths : ths[t].pc = "detecting"

\* where a call starts
entry_pc(call, T, P, b) ==
    CASE call = "get_features" -> "get_features"
      [] call = "search_pos" ->
            IF reaches_dispatch(T, P, b) THEN "get_features" ELSE "dispatch"
      [] call = "search" -> "search"
      [] call = "matches" -> "matches"

InitThreads ==
    /\ text = <<>>
    /\ pattern \in ThreadPatterns
    /\ machine \in ThreadMachines
    /\ build = AllEngines
    /\ generator = NoGenerator
    /\ cached = Unset
    /\ tree \in ThreadTrees
    /\ source = Unparse(tree)
    /\ \E seed \in HashSeeds :
       \E r \in {compile(source, seed)} :
          /\ nfa_states_ = r.nfa_states_
          /\ nfa_start_ = r.nfa_start_
          /\ states_ = r.states_
          /\ error = r.error
    /\ op = "compile_regex"
    /\ ret = None
    /\ cmps = 0
    /\ threads = [t \in ThreadIds |-> thread("none", <<>>, "idle", None, 0)]
    /\ frames = [t \in ThreadIds |-> frame(0, 0, 0, FALSE)]

SharedUnchanged ==
    UNCHANGED <<text, pattern, machine, build, generator,
                source, tree, nfa_states_,
                nfa_start_, states_, error, op, ret, cmps>>

\* thread t starts a call
ThreadCall(t) ==
    /\ threads[t].pc \in {"idle", "done"}
    /\ \E in \in ThreadCalls :
          threads' = [threads EXCEPT ![t] =
              thread(in[1], in[2], entry_pc(in[1], in[2], pattern, build), None,
                     threads[t].detected)]
    /\ UNCHANGED <<cached, frames>>
    /\ SharedUnchanged

\* thread t reaches the declaration of the static in get_features
GetFeaturesEnter(t) ==
    /\ threads[t].pc = "get_features"
    /\ IF cached # Unset
       THEN threads' = [threads EXCEPT ![t].pc = "dispatch"]
       ELSE /\ ~initializing(threads)
            /\ threads' = [threads EXCEPT ![t].pc = "detecting"]
    /\ UNCHANGED <<cached, frames>>
    /\ SharedUnchanged

\* thread t runs the initializer of the static
DetectFeatures(t) ==
    /\ threads[t].pc = "detecting"
    /\ cached' = detect_features(machine)
    /\ threads' = [threads EXCEPT ![t].pc = "dispatch",
                                  ![t].detected = @ + 1]
    /\ UNCHANGED frames
    /\ SharedUnchanged

\* thread t returns from get_features, or runs the literal search with the
\* features it got
Dispatch(t) ==
    /\ threads[t].pc = "dispatch"
    /\ threads' = [threads EXCEPT
          ![t].pc = "done",
          ![t].ret =
              IF threads[t].call = "get_features" THEN cached
              ELSE search_pos(threads[t].text, pattern,
                              get_features(cached, machine), build).pos]
    /\ UNCHANGED <<cached, frames>>
    /\ SharedUnchanged

\* thread t makes a step inside search or matches
RegexStep(t) ==
    /\ threads[t].pc \in RegexPcs
    /\ \E r \in {regex_step(states_, threads[t], frames[frame_of(t)])} :
          /\ threads' = [threads EXCEPT ![t] = r.th]
          /\ frames' = [frames EXCEPT ![frame_of(t)] = r.fr]
    /\ UNCHANGED cached
    /\ SharedUnchanged

NextThreads ==
    \E t \in ThreadIds :
        \/ ThreadCall(t)
        \/ GetFeaturesEnter(t)
        \/ DetectFeatures(t)
        \/ Dispatch(t)
        \/ RegexStep(t)

SpecThreads == InitThreads /\ [][NextThreads]_vars

-----------------------------------------------------------------------------
(* State machine of the CPU feature probe alone, on every machine the      *)
(* probe can tell apart: the maximum CPUID leaf below 1, below 7 or not,    *)
(* and every setting of the bits the probe tests.                           *)

ProbeMachines ==
    {Machine(ml, ecx1, xcr0, ebx7) :
        ml \in {0, 1, 6, 7},
        ecx1 \in SUBSET {20, 27},
        xcr0 \in SUBSET {1, 2, 5, 6, 7},
        ebx7 \in SUBSET {5, 16, 30}}

InitProbe ==
    /\ text = <<>>
    /\ pattern = <<>>
    /\ machine \in ProbeMachines
    /\ build = AllEngines
    /\ generator = NoGenerator
    /\ cached = Unset
    /\ NoThreads
    /\ RegexInit
    /\ op = "init"
    /\ ret = None
    /\ cmps = 0

SpecProbe == InitProbe /\ [][GetFeatures]_vars

-----------------------------------------------------------------------------
(* State machine of patch alone, on NFAs of two states of the shapes the    *)
(* builder makes: epsilon states with either slot set or not, match states  *)
(* with next1 set or not, and the accept state.                             *)

PatchSlots == {no_transition, 0, 1}

PatchStates ==
    {nfa_state("epsilon", 0, {}, n1, n2) : n1 \in PatchSlots, n2 \in PatchSlots}
    \cup {nfa_state("char_match", 97, {}, n1, no_transition) :
             n1 \in PatchSlots}
    \cup {nfa_state("class_match", 0, char_class_digit, n1, no_transition) :
             n1 \in PatchSlots}
    \cup {nfa_state("accept", 0, {}, no_transition, no_transition)}

InitPatch ==
    /\ text = <<>>
    /\ pattern = <<>>
    /\ machine = Machine(0, {}, {}, {})
    /\ build = AllEngines
    /\ generator = NoGenerator
    /\ cached = Unset
    /\ NoThreads
    /\ source = <<>>
    /\ tree = RawTree
    /\ nfa_states_ \in {<<a, b>> : a \in PatchStates, b \in PatchStates}
    /\ nfa_start_ = 0
    /\ states_ = <<>>
    /\ error = ""
    /\ op = "init"
    /\ ret = None
    /\ cmps = 0

\* patch(state, target); ret keeps the arguments
Patch ==
    /\ op = "init"
    /\ \E state \in 0..Len(nfa_states_), target \in 0..(Len(nfa_states_) - 1) :
          /\ nfa_states_' = patch(nfa_states_, state, target)
          /\ ret' = <<state, target>>
    /\ op' = "patch"
    /\ UNCHANGED <<text, pattern, machine, build, generator,
                   cached, source, tree, nfa_start_,
                   states_, error, cmps, threads, frames>>

SpecPatch == InitPatch /\ [][Patch]_vars
-----------------------------------------------------------------------------
(* Reference notions the properties are stated with *)

\* P occurs in T at offset o
Occurs(T, P, o) ==
    /\ o + Len(P) <= Len(T)
    /\ \A i \in 1..Len(P) : T[o + i] = P[i]

Occurrences(T, P) == {o \in 0..(Len(T) - Len(P)) : Occurs(T, P, o)}

FirstOccurrence(T, P) ==
    IF Occurrences(T, P) = {} THEN None ELSE SetMin(Occurrences(T, P))

StrictlyIncreasing(s) == \A i \in 1..(Len(s) - 1) : s[i] < s[i + 1]

Elements(s) == {s[i] : i \in 1..Len(s)}

\* the prefix of length l of P[0..i] is also a suffix of P[0..i]
IsBorder(P, i, l) == \A j \in 1..l : P[j] = P[i + 1 - l + j]

\* F is the prefix function of P
IsFailureTable(P, F) ==
    /\ Len(F) = Len(P)
    /\ \A i \in 0..(Len(P) - 1) :
          /\ 0 <= At(F, i) /\ At(F, i) <= i
          /\ IsBorder(P, i, At(F, i))
          /\ \A l \in (At(F, i) + 1)..i : ~IsBorder(P, i, l)

EngineOps == {"kmp_search_sse42", "kmp_search_avx2", "kmp_search_avx512"}

\* the ASCII bytes, the only bytes an atom of a regex can match
Ascii == 0..127
Digits == 48..57
WordBytes == (97..122) \cup (65..90) \cup Digits \cup {95}
SpaceBytes == {32, 9, 10, 11, 12, 13}

\* the bytes an escape denotes: a shorthand class or the escaped byte
EscapeBytes(c) ==
    CASE c = Ch.d -> Digits
      [] c = Ch.D -> Ascii \ Digits
      [] c = Ch.w -> WordBytes
      [] c = Ch.W -> Ascii \ WordBytes
      [] c = Ch.s -> SpaceBytes
      [] c = Ch.S -> Ascii \ SpaceBytes
      [] OTHER -> {c} \cap Ascii

\* the bytes an item of a bracket class denotes
ItemBytes(item) ==
    CASE item.op = "char" -> {item.c} \cap Ascii
      [] item.op = "range" -> (item.c..item.kids[1].c) \cap Ascii
      [] item.op = "escape" -> EscapeBytes(item.c)

ClassBytes(items) == UNION {ItemBytes(items[i]) : i \in 1..Len(items)}

\* the bytes a one-byte atom denotes
AtomBytes(t) ==
    CASE t.op = "lit" -> {t.c} \cap Ascii
      [] t.op = "any" -> Ascii \ {Ch.newline}
      [] t.op = "esc" -> EscapeBytes(t.c)
      [] t.op = "class" -> ClassBytes(t.kids)
      [] t.op = "negclass" -> Ascii \ ClassBytes(t.kids)

RECURSIVE InLang(_, _)
RECURSIVE InCat(_, _)
\* w is a concatenation of words of the languages of the trees in kids
InCat(kids, w) ==
    IF kids = <<>> THEN w = <<>>
    ELSE \E k \in 0..Len(w) :
            /\ InLang(Head(kids), SubSeq(w, 1, k))
            /\ InCat(Tail(kids), SubSeq(w, k + 1, Len(w)))

\* w belongs to the language the syntax tree t denotes
InLang(t, w) ==
    CASE t.op \in {"lit", "any", "esc", "class", "negclass"} ->
            Len(w) = 1 /\ w[1] \in AtomBytes(t)
      [] t.op = "anchor" -> w = <<>>
      [] t.op = "group" -> InLang(t.kids[1], w)
      [] t.op = "cat" -> InCat(t.kids, w)
      [] t.op = "alt" -> \E i \in 1..Len(t.kids) : InLang(t.kids[i], w)
      [] t.op = "opt" -> w = <<>> \/ InLang(t.kids[1], w)
      [] t.op = "star" ->
            \/ w = <<>>
            \/ \E k \in 1..Len(w) :
                  /\ InLang(t.kids[1], SubSeq(w, 1, k))
                  /\ InLang(t, SubSeq(w, k + 1, Len(w)))
      [] t.op = "plus" ->
            \/ InLang(t.kids[1], w)
            \/ \E k \in 1..(Len(w) - 1) :
                  /\ InLang(t.kids[1], SubSeq(w, 1, k))
                  /\ InLang(t, SubSeq(w, k + 1, Len(w)))

\* a bracket class holds \D, \W or \S somewhere in t
RECURSIVE HasClassComplement(_)
HasClassComplement(t) ==
    \/ t.op = "escape" /\ t.c \in {Ch.D, Ch.W, Ch.S}
    \/ \E i \in 1..Len(t.kids) : HasClassComplement(t.kids[i])

\* the state the DFA is in after stepping from state 0 through the bytes
\* T[s .. e - 1]; dead_state after a dead transition or a non-ASCII byte
RECURSIVE RunFrom(_, _, _, _)
RunFrom(states, T, s, e) ==
    IF e <= s THEN 0
    ELSE IF RunFrom(states, T, s, e - 1) = dead_state THEN dead_state
    ELSE IF At(T, e - 1) >= ascii_size THEN dead_state
    ELSE At(states, RunFrom(states, T, s, e - 1)).transitions[At(T, e - 1)]

\* started in state 0 at s the DFA is accepting at once or after some step
Qualifies(states, T, s) ==
    \E e \in s..Len(T) :
        /\ RunFrom(states, T, s, e) # dead_state
        /\ At(states, RunFrom(states, T, s, e)).is_accept

\* the start offsets of T, from 0 to its end, at which the DFA qualifies
QualifyingStarts(states, T) ==
    {s \in 0..Len(T) : Qualifies(states, T, s)}

\* the NFA states an epsilon edge leads to from a state of S
EpsEdges(nfa, S) ==
    {t \in 0..(Len(nfa) - 1) :
        \E s \in S : /\ s < Len(nfa)
                     /\ At(nfa, s).kind = "epsilon"
                     /\ t \in {At(nfa, s).next1, At(nfa, s).next2}}

\* the NFA states reachable from S over at most n epsilon edges
RECURSIVE EpsReach(_, _, _)
EpsReach(nfa, S, n) ==
    IF n = 0 \/ EpsEdges(nfa, S) \subseteq S THEN S
    ELSE EpsReach(nfa, S \cup EpsEdges(nfa, S), n - 1)

\* the NFA states reachable from S over epsilon edges
EpsClosure(nfa, S) == EpsReach(nfa, S, Len(nfa))

\* the NFA states an edge labelled with the byte c leads to from S
ByteEdges(nfa, S, c) ==
    {t \in 0..(Len(nfa) - 1) :
        \E s \in S :
            /\ s < Len(nfa)
            /\ At(nfa, s).next1 = t
            /\ \/ At(nfa, s).kind = "char_match" /\ At(nfa, s).match_char = c
               \/ At(nfa, s).kind = "class_match" /\ c \in At(nfa, s).match_class}


-----------------------------------------------------------------------------
(* Properties *)

\* C1: for a non-empty pattern search_pos returns the smallest offset at
\* which the pattern occurs in the text, and no value exactly when the
\* pattern does not occur (whatever engine the dispatch selects).
C1_FirstMatch ==
    (op = "search_pos" /\ pattern # <<>>) =>
        ret = FirstOccurrence(text, pattern)

C1_Witness ==
    /\ op = "search_pos"
    /\ Len(text) >= simd_threshold
    /\ KMP_HAS_AVX2(build)
    /\ has_avx2(cached)
    /\ ret > 0

\* C2 as stated: for the empty pattern search_pos returns offset 0 and
\* contains returns true for every text, the empty text included.
C2_EmptyPatternAnyText ==
    /\ (op = "search_pos" /\ pattern = <<>>) => ret = 0
    /\ (op = "contains" /\ pattern = <<>>) => ret = TRUE

\* C2 amended: for the empty pattern and a non-empty text search_pos returns
\* offset 0 and contains returns true; for the empty pattern and the empty
\* text search_pos returns no value and contains returns false.
C2_EmptyPattern ==
    /\ (op = "search_pos" /\ pattern = <<>>) =>
           ret = (IF text = <<>> THEN None ELSE 0)
    /\ (op = "contains" /\ pattern = <<>>) => ret = (text # <<>>)

C2_Witness ==
    /\ op = "contains"
    /\ pattern = <<>>
    /\ Len(text) >= simd_threshold
    /\ ret = TRUE

\* C3: for a non-empty pattern search_all_vec is the strictly increasing
\* list of exactly the offsets at which the pattern occurs, overlapping
\* occurrences included.
C3_AllMatches ==
    (op = "search_all_vec" /\ pattern # <<>>) =>
        /\ StrictlyIncreasing(ret)
        /\ Elements(ret) = Occurrences(text, pattern)

\* two occurrences that overlap are both reported
C3_Witness ==
    /\ op = "search_all_vec"
    /\ Len(pattern) >= 2
    /\ \E i \in 1..(Len(ret) - 1) : ret[i + 1] < ret[i] + Len(pattern)

\* C4: for a non-empty pattern search_pos is the first element of
\* search_all_vec when that list is non-empty, and has no value when it is
\* empty.
C4_FirstIsMinimum ==
    (op = "search_pos" /\ pattern # <<>>) =>
        Let(search_all_vec(text, pattern), LAMBDA all :
            IF all # <<>> THEN ret = all[1] ELSE ret = None)

C4_Witness ==
    /\ op = "search_pos"
    /\ Len(text) >= simd_threshold
    /\ KMP_HAS_AVX512(build)
    /\ has_avx512(cached)
    /\ Len(search_all_vec(text, pattern)) >= 2
    /\ ret > 0

\* C5: for a non-empty pattern and its failure table the SSE4.2, AVX2 and
\* AVX-512 engines return the position the scalar engine returns, or all
\* four report no match.
C5_KernelEquivalence ==
    (op \in EngineOps /\ pattern # <<>>) =>
        Let(kmp_search_scalar(text, pattern, compute_failure(pattern)).it,
            LAMBDA it : IF it = Len(text) THEN ret = NullPtr ELSE ret = it)

C5_Witness ==
    /\ op = "kmp_search_avx2"
    /\ Len(text) >= simd_threshold
    /\ Len(pattern) >= 32
    /\ ret > 0

\* C6: the failure table of a pattern of length m has length m, F[0] = 0,
\* 0 <= F[i] <= i, and F[i] is the length of the longest proper prefix of
\* P[0..i] that is also a suffix of it; the table of the empty pattern is
\* empty.  This holds of compute_failure and of compiled_pattern.
C6_FailureTable ==
    (op \in {"compute_failure", "compiled_pattern"}) =>
        /\ IsFailureTable(pattern, ret)
        /\ pattern # <<>> => ret[1] = 0
        /\ pattern = <<>> => ret = <<>>

C6_Witness ==
    /\ op = "compute_failure"
    /\ Len(pattern) >= 3
    /\ \E i \in 2..Len(pattern) : ret[i] > 0 /\ ret[i] < i - 1

\* C7: count is the length of search_all_vec, which for a non-empty pattern
\* is the number of (possibly overlapping) occurrences, and 0 for the empty
\* pattern.
C7_Count ==
    (op = "count") =>
        /\ ret = Len(search_all_vec(text, pattern))
        /\ pattern # <<>> => ret = Cardinality(Occurrences(text, pattern))
        /\ pattern = <<>> => ret = 0

C7_Witness ==
    /\ op = "count"
    /\ pattern # <<>>
    /\ ret >= 2

\* C8: on every engine path the number of pattern bytes compared while
\* verifying candidates is linear in n + m.  Scalar KMP evaluates at most
\* three comparisons per text byte, which is the constant taken here.
C8_LinearWork ==
    (op \in EngineOps \cup {"kmp_search_scalar"}) =>
        cmps <= 3 * (Len(text) + Len(pattern))

\* C9: for every regex of the supported grammar and every text,
\* matches(text) is true exactly when the whole text belongs to the
\* language the regex denotes.
C9_MatchesIffInLanguage ==
    op = "matches" => (ret <=> InLang(tree, text))

\* matches decides the language of every regex that holds no \D, \W or \S
\* inside a bracket class
MatchesIffInLanguageElsewhere ==
    (op = "matches" /\ ~HasClassComplement(tree))
        => (ret <=> InLang(tree, text))

\* C10: search returns the smallest start offset of the text at which the
\* DFA, started in state 0, is accepting at once or reaches an accepting
\* state before a dead transition or a non-ASCII byte, and returns no value
\* exactly when no start offset of the text qualifies.  Violated: with a
\* regex whose state 0 accepts, offset 0 of the empty text qualifies and
\* search finds nothing, because its outer loop runs no iteration on the
\* empty text.
C10_SearchLeftmost ==
    op = "search" =>
        ret = IF QualifyingStarts(states_, text) = {} THEN None
              ELSE SetMin(QualifyingStarts(states_, text))

\* C10 on the texts of at least one byte: there search returns the
\* smallest qualifying start offset, and no value exactly when there is
\* none
SearchLeftmostInNonEmptyText ==
    (op = "search" /\ text # <<>>) =>
        ret = IF QualifyingStarts(states_, text) = {} THEN None
              ELSE SetMin(QualifyingStarts(states_, text))

\* a search that found a match at a later offset after an attempt at
\* offset 0 died
SearchLeftmostReached ==
    /\ op = "search"
    /\ ret > 0
    /\ ~Qualifies(states_, text, 0)
    /\ ~At(states_, 0).is_accept
    /\ Len(text) = MaxRegexTextLen

\* the offsets of the bytes >= 128 of T
NonAsciiAt(T) == {p \in 0..(Len(T) - 1) : At(T, p) >= ascii_size}

\* the bytes of T after offset p
After(T, p) == SubSeq(T, p + 2, Len(T))

\* C11: bytes >= 128 never match and never abort scanning: matches is false
\* on every text that holds one, a search result at or before such a byte
\* was accepted without stepping over it, and the start offsets after the
\* byte are still tried, with the result search gives on the rest of the
\* text.
C11_NonAsciiNeverMatches ==
    /\ (op = "matches" /\ NonAsciiAt(text) # {}) => ret = FALSE
    /\ op = "search" =>
          \A p \in NonAsciiAt(text) :
              /\ (ret # None /\ ret <= p) =>
                    \E e \in ret..p :
                        /\ RunFrom(states_, text, ret, e) # dead_state
                        /\ At(states_, RunFrom(states_, text, ret, e)).is_accept
              /\ (ret = None \/ ret > p) =>
                    ret = IF compiled_dfa_search(states_, After(text, p)) = None
                          THEN None
                          ELSE p + 1 + compiled_dfa_search(states_,
                                                           After(text, p))

\* C11 witness: a search that found its match after a non-ASCII byte
C11_Witness ==
    /\ op = "search"
    /\ NonAsciiAt(text) = {0}
    /\ ret = 1

\* the tree t without its unquantified anchors
RECURSIVE StripAnchors(_)
StripAnchors(t) ==
    IF t.op = "anchor" THEN Cat(<<>>)
    ELSE IF t.op \in {"cat", "alt", "group"} THEN
        Node(t.op, t.c,
             [i \in 1..Len(SelectSeq(t.kids, LAMBDA k : k.op # "anchor")) |->
                 StripAnchors(SelectSeq(t.kids,
                                        LAMBDA k : k.op # "anchor")[i])])
    ELSE t

\* C12: '^' and '$' compile to one epsilon state and do not constrain the
\* position: a regex with unquantified anchors in its concatenations
\* compiles, and matches and search return on every text what they return
\* for the regex without the anchors.
C12_AnchorsAreEpsilon ==
    tree \in AnchoredTrees =>
        /\ op # "init" => error = ""
        /\ (op # "init" /\ tree.op = "anchor") =>
              /\ Len(nfa_states_) = 2
              /\ At(nfa_states_, 0).kind = "epsilon"
        /\ op = "matches" =>
              \E seed \in HashSeeds :
                  ret = compiled_dfa_matches(
                            compile(Unparse(StripAnchors(tree)), seed).states_,
                            text)
        /\ op = "search" =>
              \E seed \in HashSeeds :
                  ret = compiled_dfa_search(
                            compile(Unparse(StripAnchors(tree)), seed).states_,
                            text)

\* C12 witness: '^' a b '$' found in the middle of a text
C12_Witness ==
    /\ op = "search"
    /\ source = <<Ch.caret, 97, 98, Ch.dollar>>
    /\ text = <<98, 97, 98, 97>>
    /\ ret = 1

\* One step of a lexical scan of a regex source: depth is the number of
\* open groups, class is TRUE inside brackets, esc is TRUE after a
\* backslash, stray is TRUE once a ')' closed no group.
ScanStep(sc, c) ==
    IF sc.esc THEN [sc EXCEPT !.esc = FALSE]
    ELSE IF c = Ch.backslash THEN [sc EXCEPT !.esc = TRUE]
    ELSE IF sc.class THEN
        IF c = Ch.rbracket THEN [sc EXCEPT !.class = FALSE] ELSE sc
    ELSE IF c = Ch.lbracket THEN [sc EXCEPT !.class = TRUE]
    ELSE IF c = Ch.lparen THEN [sc EXCEPT !.depth = @ + 1]
    ELSE IF c = Ch.rparen THEN
        IF sc.depth > 0 THEN [sc EXCEPT !.depth = @ - 1]
        ELSE [sc EXCEPT !.stray = TRUE]
    ELSE sc

RECURSIVE Scan(_, _)
Scan(src, n) ==
    IF n = 0
    THEN [depth |-> 0, class |-> FALSE, esc |-> FALSE, stray |-> FALSE]
    ELSE ScanStep(Scan(src, n - 1), src[n])

\* src holds an unmatched '(', an unclosed '[' or a dangling '\' at its end
IllFormed(src) ==
    \/ Scan(src, Len(src)).depth > 0
    \/ Scan(src, Len(src)).class
    \/ Scan(src, Len(src)).esc

\* src holds a ')' that closes no group
HasStrayParen(src) == Scan(src, Len(src)).stray

\* C13: compile_regex fails with an error, and leaves no DFA, for every
\* source that holds an unmatched '(', an unclosed '[' or a dangling '\'.
C13_IllFormedRejected ==
    (op # "init" /\ IllFormed(source)) => (error # "" /\ states_ = <<>>)

\* ill-formed sources are rejected when no ')' that closes no group
\* comes before the ill-formed part
IllFormedRejectedWithoutStrayParen ==
    (op # "init" /\ IllFormed(source) /\ ~HasStrayParen(source))
        => (error # "" /\ states_ = <<>>)

\* the bytes that label an edge of the NFA: on any other byte no set of
\* NFA states has a successor
EdgeBytes(nfa) ==
    {c \in 0..(ascii_size - 1) :
        ByteEdges(nfa, 0..(Len(nfa) - 1), c) # {}}

\* the sets of NFA states the subset construction reaches: seen are those
\* found so far and frontier those of them whose successors are not taken
\* yet; the search ends when nothing is new or more than limit are seen
RECURSIVE ReachableSets(_, _, _, _)
ReachableSets(nfa, seen, frontier, limit) ==
    IF frontier = {} \/ Cardinality(seen) > limit THEN seen
    ELSE Let(({EpsClosure(nfa, ByteEdges(nfa, X, c)) :
                  X \in frontier, c \in EdgeBytes(nfa)} \ {{}}) \ seen,
             LAMBDA new : ReachableSets(nfa, seen \cup new, new, limit))

\* the subset construction needs more than limit DFA states for the NFA
NeedsMoreStatesThan(nfa, start, limit) ==
    Cardinality(ReachableSets(nfa, {EpsClosure(nfa, {start})},
                              {EpsClosure(nfa, {start})}, limit)) > limit

\* C14: build_dfa throws the pattern-too-complex error when the subset
\* construction needs more DFA states than max_dfa_states, so a DFA that
\* was built has between 1 and max_dfa_states states.
C14_StateLimit ==
    op = "build_dfa" =>
        /\ NeedsMoreStatesThan(nfa_states_, nfa_start_, max_dfa_states) =>
              error = "DFA state limit exceeded - pattern too complex"
        /\ error = "" =>
              (1 <= Len(states_) /\ Len(states_) <= max_dfa_states)

\* C14 witness: a regex that needs more than max_dfa_states states was
\* rejected
C14_Witness ==
    /\ op = "build_dfa"
    /\ error = "DFA state limit exceeded - pattern too complex"
    /\ NeedsMoreStatesThan(nfa_states_, nfa_start_, max_dfa_states)

\* C15: at no point does build_dfa hold more DFA states than
\* max_dfa_states.
C15_NeverAboveLimit ==
    op = "build_dfa" => Len(states_) <= max_dfa_states

\* C16: compiling a source again gives the same DFA: the table a compile
\* leaves (the number of states, every transition row, every accept flag)
\* is the table of a compile of that source whatever order the hash sets of
\* build_dfa iterate in.
C16_CompileDeterministic ==
    op = "compile_regex" =>
        \A seed \in HashSeeds :
            /\ compile(source, seed).error = error
            /\ compile(source, seed).states_ = states_

\* C16 witness: a compiled DFA one of whose states is a set of several NFA
\* states, reached from two DFA states
C16_Witness ==
    /\ op = "compile_regex"
    /\ error = ""
    /\ Len(states_) >= 3
    /\ \E i, j \in 0..(Len(states_) - 1) : \E c, e \in Ascii :
          /\ i # j
          /\ At(states_, i).transitions[c] # dead_state
          /\ At(states_, i).transitions[c] = At(states_, j).transitions[e]

\* C17: in a compiled DFA state 0 is the start state (the state of the
\* epsilon closure of the NFA start state), and each of the 128 entries of
\* every transition row is the dead-state sentinel or the index of a state
\* of the table.
C17_TableWellFormed ==
    (op = "compile_regex" /\ error = "") =>
        /\ Len(states_) >= 1
        /\ At(states_, 0).is_accept =
               \E s \in EpsClosure(nfa_states_, {nfa_start_}) :
                   At(nfa_states_, s).kind = "accept"
        /\ \A c \in 0..(ascii_size - 1) :
               (At(states_, 0).transitions[c] = dead_state) <=>
                   (ByteEdges(nfa_states_,
                        EpsClosure(nfa_states_, {nfa_start_}), c) = {})
        /\ \A i \in 0..(Len(states_) - 1) :
               /\ DOMAIN At(states_, i).transitions = 0..(ascii_size - 1)
               /\ \A c \in 0..(ascii_size - 1) :
                      \/ At(states_, i).transitions[c] = dead_state
                      \/ /\ 0 <= At(states_, i).transitions[c]
                         /\ At(states_, i).transitions[c] < Len(states_)

\* C17 witness: a compiled DFA of several states with a transition into
\* its last state and a dead entry
C17_Witness ==
    /\ op = "compile_regex"
    /\ error = ""
    /\ Len(states_) >= 3
    /\ \E i \in 0..(Len(states_) - 1) : \E c, e \in Ascii :
          /\ At(states_, i).transitions[c] = Len(states_) - 1
          /\ At(states_, i).transitions[e] = dead_state

\* the result of the call of thread record th made alone
SequentialResult(th) ==
    CASE th.call = "search" -> compiled_dfa_search(states_, th.text)
      [] th.call = "matches" -> compiled_dfa_matches(states_, th.text)
      [] th.call = "search_pos" ->
            search_pos(th.text, pattern, detect_features(machine),
                       build).pos
      [] th.call = "get_features" -> detect_features(machine)

\* C18: threads that call search and matches on one compiled regex, and
\* run literal searches with one pattern, without synchronisation each get
\* the result of the call made alone, whatever the interleaving, and no
\* step of theirs changes the compiled regex or the pattern.
C18_ConcurrentCallsAgree ==
    /\ [](\A t \in DOMAIN threads :
             (threads[t].pc = "done" /\ threads[t].call # "get_features")
                 => threads[t].ret = SequentialResult(threads[t]))
    /\ [][threads # <<>> =>
             /\ states_' = states_
             /\ nfa_states_' = nfa_states_
             /\ nfa_start_' = nfa_start_
             /\ source' = source
             /\ pattern' = pattern]_vars

\* C18 witness: one thread has found a match at offset 1 while the other is
\* inside the loop of matches on the same regex
C18_Witness ==
    /\ threads # <<>>
    /\ \E t, u \in DOMAIN threads :
          /\ t # u
          /\ threads[t].pc = "done"
          /\ threads[t].call = "search"
          /\ threads[t].ret = 1
          /\ threads[u].pc = "matches_loop"
          /\ frames[u].i = 1

RECURSIVE Detections(_, _)
\* the number of calls of detect_features the threads in S have made
Detections(ths, S) ==
    IF S = {} THEN 0
    ELSE Let(CHOOSE t \in S : TRUE,
             LAMBDA t : ths[t].detected + Detections(ths, S \ {t}))

\* C19: detect_features runs once, also when several threads make the first
\* call of get_features together; every call of get_features returns the
\* value it computed, and the value, once set, never changes.
C19_FeaturesComputedOnce ==
    /\ [](/\ Detections(threads, DOMAIN threads) <= 1
          /\ (threads # <<>> /\ cached # Unset) =>
                /\ Detections(threads, DOMAIN threads) = 1
                /\ cached = detect_features(machine)
          /\ \A t \in DOMAIN threads :
                (threads[t].pc = "done" /\ threads[t].call = "get_features")
                    => threads[t].ret = detect_features(machine))
    /\ [][cached # Unset => cached' = cached]_vars

\* C19 witness: one thread runs the initializer while another waits at the
\* declaration of the static
C19_Witness ==
    /\ threads # <<>>
    /\ \E t, u \in DOMAIN threads :
          /\ t # u
          /\ threads[t].pc = "detecting"
          /\ threads[u].pc = "get_features"
          /\ threads[u].call = "get_features"

\* the candidate the scan for the first pattern byte finds from cursor p:
\* the least feasible start at or after p that holds P[0], None if none
CandidateFrom(T, P, p) ==
    IF \E c \in p..(Len(T) - Len(P)) : At(T, c) = At(P, 0)
    THEN SetMin({c \in p..(Len(T) - Len(P)) : At(T, c) = At(P, 0)})
    ELSE None

\* the number of pattern bytes that match the text at the candidate c
PrefixEqLen(T, P, c) ==
    CHOOSE k \in 0..Len(P) :
        /\ \A j \in 0..(k - 1) : At(T, c + j) = At(P, j)
        /\ k < Len(P) => At(T, c + k) # At(P, k)

\* the skip distance after k matched bytes
SkipDistance(F, k) == IF k > 0 THEN k - At(F, k - 1) ELSE 1

\* one round of the loop of the engine `name` from the cursor p
EngineStep(name, T, P, F, p) ==
    CASE name = "kmp_search_sse42" ->
            sse42_step(T, P, F, [EngineStart EXCEPT !.text_ptr = p])
      [] name = "kmp_search_avx2" ->
            avx2_step(T, P, F, [EngineStart EXCEPT !.text_ptr = p])
      [] name = "kmp_search_avx512" ->
            avx512_step(T, P, F, [EngineStart EXCEPT !.text_ptr = p])

\* the cursors from which a round of the engine fails at a candidate
FailingCursors(T, P) ==
    {p \in 0..(Len(T) - Len(P)) :
        /\ CandidateFrom(T, P, p) # None
        /\ PrefixEqLen(T, P, CandidateFrom(T, P, p)) < Len(P)}

\* the cursor after the failed candidate c is not before c + 1, the
\* failure table entry does not exceed k, the skip distance is at least 1
\* and the pattern occurs at no offset strictly between c and the cursor
SkipIsSafe(T, P, F, c, k, r) ==
    /\ ~r.done
    /\ k > 0 => At(F, k - 1) <= k
    /\ SkipDistance(F, k) >= 1
    /\ r.text_ptr >= c + 1
    /\ \A o \in (c + 1)..(r.text_ptr - 1) : ~Occurs(T, P, o)

EngineSkip(name, F, k) ==
    IF name = "kmp_search_sse42" THEN 1 ELSE SkipDistance(F, k)

FindFirstCharOps ==
    {"find_first_char_sse42", "find_first_char_avx2", "find_first_char_avx512"}

\* the lowest index below len at which the buffer holds b, NullPtr if none
FirstIndexOf(H, len, b) ==
    IF \E i \in 0..(len - 1) : At(H, i) = b
    THEN SetMin({i \in 0..(len - 1) : At(H, i) = b})
    ELSE NullPtr

\* C21: find_first_char_sse42, find_first_char_avx2 and
\* find_first_char_avx512 return the lowest index below len at which the
\* buffer holds the byte, and no result when there is none (so for len = 0),
\* wherever the first hit lies.
C21_FindFirstChar ==
    (op \in FindFirstCharOps) =>
        /\ ret = FirstIndexOf(text, Len(text), At(pattern, 0))
        /\ text = <<>> => ret = NullPtr

\* C21 witness: the AVX-512 scan passes a 64-byte chunk without a hit and
\* finds the byte, present twice, in the chunks behind it
C21_Witness ==
    /\ op = "find_first_char_avx512"
    /\ ret >= 64
    /\ \E i \in (ret + 1)..(Len(text) - 1) : At(text, i) = At(pattern, 0)

\* the length of the longest common prefix of A and B within len bytes
CommonPrefixLen(A, B, len) ==
    CHOOSE k \in 0..len :
        /\ \A j \in 0..(k - 1) : At(A, j) = At(B, j)
        /\ k < len => At(A, k) # At(B, k)

\* C22: compare_avx2 and compare_avx512 return the length of the longest
\* common prefix of the two buffers within len bytes: the index of the first
\* difference, or len when the buffers agree (0 for len = 0).
C22_ComparePrefix ==
    (op \in {"compare_avx2", "compare_avx512"}) =>
        /\ ret = CommonPrefixLen(text, pattern, CompareLen)
        /\ 0 <= ret /\ ret <= CompareLen
        /\ CompareLen = 0 => ret = 0

\* C22 witness: the buffers agree on a whole vector and differ in the bytes
\* the scalar loop compares
C22_Witness ==
    /\ op = "compare_avx2"
    /\ ret > 32
    /\ ret < CompareLen

\* the engine the CPU flags alone name for a text, a non-empty pattern that
\* fits in it, the iterator kind and the machine: its result and its
\* comparisons
DispatchedRun(T, P, contiguous, hw) ==
    IF ~contiguous \/ Len(T) < simd_threshold
    THEN kmp_search_scalar(T, P, compute_failure(P))
    ELSE IF {"avx512f", "avx512bw"} \subseteq detect_features(hw)
    THEN engine_result(T, kmp_search_avx512(T, P, compute_failure(P)))
    ELSE IF "avx2" \in detect_features(hw)
    THEN engine_result(T, kmp_search_avx2(T, P, compute_failure(P)))
    ELSE IF "sse42" \in detect_features(hw)
    THEN engine_result(T, kmp_search_sse42(T, P, compute_failure(P)))
    ELSE kmp_search_scalar(T, P, compute_failure(P))

\* the engine the build b runs for a text, a non-empty pattern that fits in
\* it, the iterator kind and the machine: the first of AVX-512, AVX2 and
\* SSE4.2 that is compiled in and whose CPU flag is set
CompiledRun(T, P, contiguous, hw, b) ==
    IF ~contiguous \/ Len(T) < simd_threshold
    THEN kmp_search_scalar(T, P, compute_failure(P))
    ELSE IF "avx512" \in b
            /\ {"avx512f", "avx512bw"} \subseteq detect_features(hw)
    THEN engine_result(T, kmp_search_avx512(T, P, compute_failure(P)))
    ELSE IF "avx2" \in b /\ "avx2" \in detect_features(hw)
    THEN engine_result(T, kmp_search_avx2(T, P, compute_failure(P)))
    ELSE IF "sse42" \in b /\ "sse42" \in detect_features(hw)
    THEN engine_result(T, kmp_search_sse42(T, P, compute_failure(P)))
    ELSE kmp_search_scalar(T, P, compute_failure(P))

\* C23 as stated: search runs a SIMD engine only for contiguous iterators,
\* a text of at least simd_threshold bytes and a set CPU flag, AVX-512
\* before AVX2 before SSE4.2, and the scalar loop in every other case: its
\* result and its comparisons are those of the engine the CPU flags name.
C23_DispatchByCpuFlag ==
    (op \in {"search_contiguous", "search_forward"}
        /\ pattern # <<>> /\ Len(text) >= Len(pattern)) =>
        /\ ret = DispatchedRun(text, pattern, op = "search_contiguous",
                               machine).it
        /\ cmps = DispatchedRun(text, pattern, op = "search_contiguous",
                                machine).cmps
        /\ simd_threshold = 64

\* C23 amended: search runs a SIMD engine only for contiguous iterators, a
\* text of at least simd_threshold bytes, an engine that the compiler flags
\* of the build compiled in and whose CPU flag is set, the first such of
\* AVX-512, AVX2 and SSE4.2, and the scalar loop in every other case: its
\* result and its comparisons are those of that engine.
C23_Dispatch ==
    (op \in {"search_contiguous", "search_forward"}
        /\ pattern # <<>> /\ Len(text) >= Len(pattern)) =>
        /\ ret = CompiledRun(text, pattern, op = "search_contiguous",
                             machine, build).it
        /\ cmps = CompiledRun(text, pattern, op = "search_contiguous",
                              machine, build).cmps
        /\ simd_threshold = 64

\* C23 witness: on a machine with AVX-512, in a build with the AVX2 engine
\* and without the AVX-512 engine, a search in a long text made the
\* comparisons of the AVX2 engine, which are not those of the AVX-512
\* engine nor of the scalar loop
C23_Witness ==
    /\ op = "search_contiguous"
    /\ pattern # <<>>
    /\ Len(text) >= simd_threshold
    /\ has_avx512(cached)
    /\ build = {"sse42", "avx2"}
    /\ cmps = kmp_search_avx2(text, pattern, compute_failure(pattern)).cmps
    /\ cmps # kmp_search_avx512(text, pattern, compute_failure(pattern)).cmps
    /\ cmps # kmp_search_scalar(text, pattern, compute_failure(pattern)).cmps

\* C24: the probe fails closed.  avx2 is reported only if OSXSAVE is set,
\* XCR0 enables the XMM and YMM state and CPUID leaf 7 exists with its AVX2
\* bit set; avx512f only if XCR0 enables the opmask and ZMM state as well;
\* avx512bw only with avx512f; and nothing when the maximum leaf is below 1.
C24_ProbeFailsClosed ==
    op = "get_features" =>
        /\ "avx2" \in ret =>
              /\ 27 \in machine.ecx1
              /\ {1, 2} \subseteq machine.xcr0
              /\ machine.max_leaf >= 7
              /\ 5 \in machine.ebx7
        /\ "avx512f" \in ret =>
              /\ 27 \in machine.ecx1
              /\ {1, 2, 5, 6, 7} \subseteq machine.xcr0
              /\ machine.max_leaf >= 7
              /\ 16 \in machine.ebx7
        /\ "avx512bw" \in ret =>
              /\ "avx512f" \in ret
              /\ 30 \in machine.ebx7
        /\ machine.max_leaf < 1 => ret = {}

\* C24 witness: the CPU has AVX2, AVX-512F and AVX-512BW but the OS enables
\* only the XMM and YMM state: avx2 is reported, avx512f and avx512bw are not
C24_Witness ==
    /\ op = "get_features"
    /\ machine.ebx7 = {5, 16, 30}
    /\ machine.xcr0 = {1, 2}
    /\ ret = {"sse42", "avx2"}

\* what patch(state, target) makes of the NFA state `old` it is given
Patched(old, target) ==
    IF old.next1 = no_transition THEN [old EXCEPT !.next1 = target]
    ELSE IF old.kind = "epsilon" /\ old.next2 = no_transition
    THEN [old EXCEPT !.next2 = target]
    ELSE old

\* C25: patch(state, target) writes target into the first empty slot of the
\* state (next1, then next2 for an epsilon state; next1 alone for a match
\* state), changes no slot that is set, and changes no other state.
C25_PatchFirstEmptySlot ==
    [][op' = "patch" =>
          /\ Len(nfa_states_') = Len(nfa_states_)
          /\ \A s \in 0..(Len(nfa_states_) - 1) :
                /\ s # ret'[1] => At(nfa_states_', s) = At(nfa_states_, s)
                /\ s = ret'[1] =>
                      At(nfa_states_', s) = Patched(At(nfa_states_, s), ret'[2])
                /\ At(nfa_states_, s).next1 # no_transition =>
                      At(nfa_states_', s).next1 = At(nfa_states_, s).next1
                /\ At(nfa_states_, s).next2 # no_transition =>
                      At(nfa_states_', s).next2 = At(nfa_states_, s).next2
                /\ At(nfa_states_, s).kind # "epsilon" =>
                      At(nfa_states_', s).next2 = At(nfa_states_, s).next2]_vars

\* C25 witness: an epsilon state whose next1 was set has been patched: its
\* next2 is the target and its next1 is another state
C25_Witness ==
    /\ op = "patch"
    /\ ret[1] < Len(nfa_states_)
    /\ At(nfa_states_, ret[1]).kind = "epsilon"
    /\ At(nfa_states_, ret[1]).next2 = ret[2]
    /\ At(nfa_states_, ret[1]).next1 \notin {ret[2], no_transition}

\* the NFA states reachable from the start state on the first e bytes of w
RECURSIVE NfaReach(_, _, _, _)
NfaReach(nfa, start, w, e) ==
    IF e = 0 THEN EpsClosure(nfa, {start})
    ELSE EpsClosure(nfa,
             ByteEdges(nfa, NfaReach(nfa, start, w, e - 1), At(w, e - 1)))

AsciiTexts == {w \in RegexTexts : \A i \in 1..Len(w) : w[i] < ascii_size}

\* the table `states` with the sets `sets` (sets[i + 1] for DFA state i)
\* simulates the NFA
Simulates(nfa, start, states, sets) ==
    /\ Len(sets) = Len(states)
    /\ \A i \in 1..Len(sets) :
          /\ sets[i] # {}
          /\ EpsClosure(nfa, sets[i]) = sets[i]
          /\ \A j \in 1..Len(sets) : sets[i] = sets[j] => i = j
          /\ states[i].is_accept <=>
                \E s \in sets[i] : At(nfa, s).kind = "accept"
    /\ \A w \in AsciiTexts :
          IF NfaReach(nfa, start, w, Len(w)) = {}
          THEN RunFrom(states, w, 0, Len(w)) = dead_state
          ELSE /\ RunFrom(states, w, 0, Len(w)) # dead_state
               /\ sets[RunFrom(states, w, 0, Len(w)) + 1] =
                      NfaReach(nfa, start, w, Len(w))

\* C26: the subset construction keeps the language of the NFA.  Every DFA
\* state stands for one epsilon-closed set of NFA states and is accepting
\* iff the set holds the accept state; after any string of ASCII bytes the
\* DFA, started in state 0, is in the state of the set of NFA states
\* reachable on the string, and in the dead state iff that set is empty.
C26_SubsetConstruction ==
    (op = "compile_regex" /\ error = "") =>
        \A seed \in HashSeeds :
            Let(build_dfa(nfa_states_, nfa_start_, seed), LAMBDA d :
                /\ d.states = states_
                /\ Simulates(nfa_states_, nfa_start_, states_,
                       [i \in 1..Len(d.worklist) |->
                           elements(d.worklist[i])]))

\* C26 witness: a DFA with an accepting state of at least three NFA states,
\* a state that does not accept, and a text that leads to the dead state
C26_Witness ==
    /\ op = "compile_regex"
    /\ error = ""
    /\ Let(build_dfa(nfa_states_, nfa_start_, "libstdc++"), LAMBDA d :
           /\ \E i \in 1..Len(states_) :
                 Len(d.worklist[i].v) >= 3 /\ states_[i].is_accept
           /\ \E i \in 1..Len(states_) : ~states_[i].is_accept)
    /\ \E w \in AsciiTexts : RunFrom(states_, w, 0, Len(w)) = dead_state

\* C27: a text that matches as a whole is found by search at offset 0,
\* the empty text included.  Violated: with a regex that accepts the empty
\* string, matches("") is true and search("") finds nothing, because the
\* outer loop of search runs no iteration on the empty text.
C27_MatchIsFoundAtStart ==
    (op = "matches" /\ ret = TRUE) => compiled_dfa_search(states_, text) = 0

\* C27 on the texts of at least one byte: there the whole match is found
\* at offset 0
MatchIsFoundAtStartOfNonEmptyText ==
    (op = "matches" /\ ret = TRUE /\ text # <<>>) =>
        compiled_dfa_search(states_, text) = 0

\* a non-empty text that matches as a whole only at its last byte
MatchIsFoundAtStartReached ==
    /\ op = "matches"
    /\ ret = TRUE
    /\ Len(text) >= 2
    /\ ~compiled_dfa_matches(states_, SubSeq(text, 1, Len(text) - 1))
    /\ compiled_dfa_search(states_, text) = 0

\* the position in src at which parse_regex returns to build_nfa
ParsedUpTo(src) == parse_regex(src, parsed(<<>>, 0, "", 0, 0)).pos

\* C28: a compile_regex that succeeds has consumed every byte of the
\* source.  Violated: at a ')' that closes no group parse_concatenation and
\* parse_alternation return, and build_nfa goes on to build the automaton of
\* the bytes before it.
C28_WholeSourceConsumed ==
    (op = "compile_regex" /\ error = "") => ParsedUpTo(source) = Len(source)

\* C28 on the sources with no ')' that closes no group: a compile that
\* succeeds has consumed the whole source
WholeSourceConsumedWithoutStrayParen ==
    (op = "compile_regex" /\ error = "" /\ ~HasStrayParen(source))
        => ParsedUpTo(source) = Len(source)

\* a source with a group and a byte after it compiled and was consumed
WholeSourceConsumedReached ==
    /\ op = "compile_regex"
    /\ error = ""
    /\ Len(source) >= 3
    /\ \E i \in 1..Len(source) : source[i] = Ch.rparen
    /\ ~HasStrayParen(source)
    /\ ParsedUpTo(source) = Len(source)

RECURSIVE PatchCalls(_)
RECURSIVE PresetSlots(_)
RECURSIVE SumOver(_, _, _)
\* the sum over the trees in kids of the patch calls (calls = TRUE) or of
\* the slots set at creation (calls = FALSE)
SumOver(kids, i, calls) ==
    IF i > Len(kids) THEN 0
    ELSE (IF calls THEN PatchCalls(kids[i]) ELSE PresetSlots(kids[i]))
             + SumOver(kids, i + 1, calls)

\* the number of patch calls the parser issues for the tree t: one for each
\* quantifier, one between two atoms of a concatenation, two for each '|'
PatchCalls(t) ==
    CASE t.op \in {"star", "plus", "opt"} -> 1 + PatchCalls(t.kids[1])
      [] t.op = "group" -> PatchCalls(t.kids[1])
      [] t.op = "cat" ->
            SumOver(t.kids, 1, TRUE)
                + (IF t.kids = <<>> THEN 0 ELSE Len(t.kids) - 1)
      [] t.op = "alt" -> SumOver(t.kids, 1, TRUE) + 2 * (Len(t.kids) - 1)
      [] OTHER -> 0

\* the number of next1 / next2 slots the parser sets when it creates the
\* states of the tree t: the splits of the quantifiers and of '|'
PresetSlots(t) ==
    CASE t.op \in {"star", "plus"} -> 1 + PresetSlots(t.kids[1])
      [] t.op = "opt" -> 2 + PresetSlots(t.kids[1])
      [] t.op = "group" -> PresetSlots(t.kids[1])
      [] t.op = "cat" -> SumOver(t.kids, 1, FALSE)
      [] t.op = "alt" -> SumOver(t.kids, 1, FALSE) + 2 * (Len(t.kids) - 1)
      [] OTHER -> 0

\* the number of next1 / next2 slots of the NFA that are set
RECURSIVE FilledSlots(_, _)
FilledSlots(nfa, i) ==
    IF i > Len(nfa) THEN 0
    ELSE (IF nfa[i].next1 # no_transition THEN 1 ELSE 0)
       + (IF nfa[i].next2 # no_transition THEN 1 ELSE 0)
       + FilledSlots(nfa, i + 1)

\* the NFA states reachable from S over at most n edges of any kind
RECURSIVE EdgeReach(_, _, _)
EdgeReach(nfa, S, n) ==
    IF n = 0 THEN S
    ELSE EdgeReach(nfa,
            S \cup {t \in 0..(Len(nfa) - 1) :
                       \E s \in S : t \in {At(nfa, s).next1,
                                           At(nfa, s).next2}},
            n - 1)

\* C29: for a regex that compiles, every patch call of the parser and of
\* build_nfa finds an empty slot (patch writes empty slots only, so the
\* slots that are set are the ones set at creation and one for each call),
\* and every NFA state reachable from the start other than the accept state
\* has a successor.
C29_NoDanglingState ==
    (op = "compile_regex" /\ error = "") =>
        /\ FilledSlots(nfa_states_, 1) =
               PresetSlots(tree) + PatchCalls(tree) + 1
        /\ \A s \in EdgeReach(nfa_states_, {nfa_start_}, Len(nfa_states_)) :
              \/ At(nfa_states_, s).kind = "accept"
              \/ At(nfa_states_, s).next1 # no_transition
              \/ /\ At(nfa_states_, s).kind = "epsilon"
                 /\ At(nfa_states_, s).next2 # no_transition

\* C29 witness: a quantified group of an alternation three levels deep
\* compiled, and one of its splits got its second slot from a patch call
C29_Witness ==
    /\ op = "compile_regex"
    /\ error = ""
    /\ tree \in NestedTrees
    /\ tree.op = "star"
    /\ PatchCalls(tree) >= 5
    /\ \E i \in 1..Len(nfa_states_) :
          /\ nfa_states_[i].kind = "epsilon"
          /\ nfa_states_[i].next1 # no_transition
          /\ nfa_states_[i].next2 # no_transition

\* the instruction set of a kernel or engine of SpecKernel
IsaOf(name) ==
    CASE name \in {"kmp_search_sse42", "find_first_char_sse42"} -> "sse42"
      [] name \in {"kmp_search_avx2", "find_first_char_avx2",
                   "compare_avx2"} -> "avx2"
      [] OTHER -> "avx512"

\* the vector loads of a scan loop of width w that ended in v are below end:
\* with a hit the chunk at v.ptr was loaded, without one the chunks below
\* v.ptr
ScanLoadsBelow(v, end, w) ==
    IF v.hit # NullPtr THEN v.ptr + w <= end ELSE v.ptr <= end

\* every load of find_first_char_<isa>(H + from, len, ch) is inside the
\* haystack, and the haystack is inside the buffer H
ScanReadsInBounds(isa, H, from, len, ch) ==
    /\ 0 <= from
    /\ from + len <= Len(H)
    /\ len > 0 =>
        CASE isa = "sse42" ->
                ScanLoadsBelow(scan_chunks(H, from, from + len, 16, ch),
                               from + len, 16)
          [] isa = "avx2" ->
                Let(scan_chunks(H, from, from + len, 32, ch), LAMBDA v32 :
                    /\ ScanLoadsBelow(v32, from + len, 32)
                    /\ v32.hit = NullPtr =>
                          ScanLoadsBelow(
                              scan_chunks(H, v32.ptr, from + len, 16, ch),
                              from + len, 16))
          [] OTHER ->
                Let(scan_chunks(H, from, from + len, 64, ch), LAMBDA v64 :
                    /\ ScanLoadsBelow(v64, from + len, 64)
                    /\ v64.hit = NullPtr =>
                          Let(scan_one_chunk(H, v64.ptr, from + len, 32, ch),
                              LAMBDA v32 :
                              /\ ScanLoadsBelow(v32, from + len, 32)
                              /\ v32.hit = NullPtr =>
                                    ScanLoadsBelow(
                                        scan_one_chunk(H, v32.ptr, from + len,
                                                       16, ch),
                                        from + len, 16)))

\* the vector loads of a compare loop of width w that ended in v are below
\* len
CompareLoadsBelow(v, len, w) ==
    IF v.k # -1 THEN v.i + w <= len ELSE v.i <= len

\* every load of compare_<isa>(A + a0, B, len) is inside A and inside B
CompareReadsInBounds(isa, A, a0, B, len) ==
    /\ 0 <= a0
    /\ a0 + len <= Len(A)
    /\ len <= Len(B)
    /\ IF isa = "avx2"
       THEN CompareLoadsBelow(compare_chunks(A, a0, B, 0, len, 32, 0), len, 32)
       ELSE Let(compare_chunks(A, a0, B, 0, len, 64, 0), LAMBDA v64 :
                /\ CompareLoadsBelow(v64, len, 64)
                /\ v64.k = -1 =>
                      CompareLoadsBelow(
                          compare_one_chunk(A, a0, B, v64.i, len, 32, 0),
                          len, 32))

\* the reads of `while (j > 0 && X[x] != pattern[j]) j = failure[j - 1];`
\* and of the comparison X[x] == pattern[j] after it are in bounds; x is
\* base + j if the text index moves with j and base if not
RECURSIVE FallbackReadsInBounds(_, _, _, _, _, _, _)
FallbackReadsInBounds(T, P, F, base, moving, j, fuel) ==
    /\ 0 <= j
    /\ j < Len(P)
    /\ 0 <= base
    /\ (IF moving THEN base + j ELSE base) < Len(T)
    /\ (j > 0 /\ At(T, IF moving THEN base + j ELSE base) # At(P, j)) =>
          /\ j - 1 < Len(F)
          /\ fuel > 0
          /\ FallbackReadsInBounds(T, P, F, base, moving, At(F, j - 1),
                                   fuel - 1)

\* the reads of kmp_search_scalar from the loop state st on are in bounds
RECURSIVE ScalarReadsInBounds(_, _, _, _)
ScalarReadsInBounds(T, P, F, st) ==
    \/ st.done
    \/ st.i >= Len(T)
    \/ /\ FallbackReadsInBounds(T, P, F, st.i, FALSE, st.j, Len(P))
       /\ ScalarReadsInBounds(T, P, F, scalar_step(T, P, F, st))

\* the reads of at most cnt iterations of the for loop of search_all in the
\* running frame g are in bounds
RECURSIVE RunReadsInBounds(_, _, _, _)
RunReadsInBounds(T, P, g, cnt) ==
    \/ cnt <= 0
    \/ g.pc # "running"
    \/ g.i >= g.n
    \/ IF cnt = 1
       THEN /\ g.n <= Len(T)
            /\ g.m <= Len(P)
            /\ FallbackReadsInBounds(T, P, g.failure, g.i, FALSE, g.j, g.m)
       ELSE /\ RunReadsInBounds(T, P, g, cnt \div 2)
            /\ RunReadsInBounds(T, P,
                   search_all_run_loop(T, P, g, cnt \div 2),
                   cnt - cnt \div 2)

\* the reads of the next resumption of the suspended frame g are in bounds;
\* after a co_yield it reads failure[j - 1]
ResumeReadsInBounds(T, P, g) ==
    IF g.pc = "initial"
    THEN \/ Len(P) = 0
         \/ Len(T) < Len(P)
         \/ RunReadsInBounds(T, P,
                [g EXCEPT !.pc = "running", !.n = Len(T), !.m = Len(P),
                          !.failure = compute_failure(P)],
                Len(T))
    ELSE /\ 0 <= g.j - 1
         /\ g.j - 1 < Len(g.failure)
         /\ RunReadsInBounds(T, P,
                [g EXCEPT !.pc = "running", !.j = At(g.failure, g.j - 1),
                          !.i = g.i + 1],
                g.n - g.i)

\* the reads of one round of the engine from the cursor p are in bounds:
\* the scan for P[0], the comparison at the candidate it finds and the
\* reads of the failure table after a mismatch
RoundReadsInBounds(name, T, P, F, p) ==
    /\ ScanReadsInBounds(IsaOf(name), T, p, Len(T) - Len(P) + 1 - p, At(P, 0))
    /\ CandidateFrom(T, P, p) # None =>
          /\ CandidateFrom(T, P, p) + Len(P) <= Len(T)
          /\ IF name = "kmp_search_sse42"
             THEN Let(sse42_verify(T, P, CandidateFrom(T, P, p), 1, 0),
                      LAMBDA v :
                      v.j < Len(P) =>
                          FallbackReadsInBounds(T, P, F,
                              CandidateFrom(T, P, p), TRUE, v.j, Len(P)))
             ELSE /\ CompareReadsInBounds(IsaOf(name), T,
                         CandidateFrom(T, P, p), P, Len(P))
                  /\ Let(PrefixEqLen(T, P, CandidateFrom(T, P, p)),
                         LAMBDA k :
                         (0 < k /\ k < Len(P)) => k - 1 < Len(F))

\* the reads of the engine from the loop state st on are in bounds
RECURSIVE EngineReadsInBounds(_, _, _, _, _)
EngineReadsInBounds(name, T, P, F, st) ==
    \/ st.done
    \/ st.text_ptr >= Len(T) - Len(P) + 1
    \/ /\ st.text_ptr >= 0
       /\ RoundReadsInBounds(name, T, P, F, st.text_ptr)
       /\ EngineReadsInBounds(name, T, P, F,
              EngineStep(name, T, P, F, st.text_ptr))

CompareOps == {"compare_avx2", "compare_avx512"}

\* C30: no literal-search path reads out of bounds.  In kmp_search_scalar,
\* every resumption of search_all, the SSE4.2, AVX2 and AVX-512 engines and
\* their scan and compare kernels every text index read is below n, every
\* pattern index and every failure-table index read is below m, the 16, 32
\* and 64 byte vector loads at the end of the text or pattern included.
C30_ReadsInBounds ==
    /\ (op = "kmp_search_scalar" /\ pattern # <<>>) =>
          ScalarReadsInBounds(text, pattern, compute_failure(pattern),
              [i |-> 0, j |-> 0, cmps |-> 0, done |-> FALSE, it |-> 0])
    /\ generator.pc \in {"initial", "co_yield"} =>
          ResumeReadsInBounds(text, pattern, generator)
    /\ (op \in EngineOps /\ pattern # <<>> /\ Len(text) >= Len(pattern)) =>
          EngineReadsInBounds(op, text, pattern, compute_failure(pattern),
                              EngineStart)
    /\ (op \in FindFirstCharOps /\ pattern # <<>>) =>
          ScanReadsInBounds(IsaOf(op), text, 0, Len(text), At(pattern, 0))
    /\ op \in CompareOps =>
          CompareReadsInBounds(IsaOf(op), text, 0, pattern, CompareLen)

\* C30 witness: the AVX-512 engine found the pattern at the very end of a
\* text of vector length after a failed candidate, so that the scan loaded
\* up to the end of the haystack and the comparison read the last text byte
C30_Witness ==
    /\ op = "kmp_search_avx512"
    /\ Len(pattern) >= 2
    /\ Len(text) >= simd_threshold
    /\ ret = Len(text) - Len(pattern)
    /\ FailingCursors(text, pattern) # {}
    /\ Occurrences(text, pattern) = {ret}

====
